---- MODULE Spec2Model ----
(***************************************************************************)
(* A model of the trash store engine of iron-bin (src/iron-bin/src/trash.rs)*)
(* over a small POSIX-like filesystem: user paths, the trash base/info/files *)
(* directories, the .trashinfo records, the payloads and the directorysizes  *)
(* file.  Every filesystem call of put, restore and empty is one step of a   *)
(* process, so that calls of two processes interleave and a call can be      *)
(* interrupted between any two of its filesystem calls.                      *)
(***************************************************************************)
EXTENDS Integers, FiniteSets, Sequences, TLC

VARIABLES
    fs,       \* user paths outside the trash: path -> filesystem entry
    dirs,     \* which of the trash directories "base", "info", "files" exist
    info,     \* info directory: identifier -> .trashinfo record file
    files,    \* files directory: identifier -> payload entry
    dsfile,   \* whether the directorysizes file exists
    dslines,  \* the lines of the directorysizes file, each a string of bytes
    mtime,    \* info directory: identifier -> second of the record file's
              \* last modification (meaningful while the record file exists)
    others,   \* info directory: the names of the files that are no records
    now,      \* the wall clock, in seconds since the first second of the model
    cache,    \* per process: the dir_sizes cell of its Trash value
    pc,       \* per process: position inside the running call
    loc,      \* per process: the local variables of the running call
    ret,      \* per process: result of the last finished call
    pre,      \* per process: the disk as it was when the running call started
    crashed,  \* whether some call was interrupted before it returned
    ops,      \* number of calls and user actions started so far
    input,    \* pure functions: the value the function is applied to
    reader,   \* pure functions: the text that is left to read
    output    \* pure functions: what has been computed so far

vars == <<fs, dirs, info, files, dsfile, dslines, mtime, others, now, cache,
          pc, loc, ret, pre, crashed, ops, input, reader, output>>
disk == <<fs, dirs, info, files, dsfile, dslines, mtime>>

\* What no call of the engine changes: the clock, the foreign files of the
\* info directory, and the values of the pure functions.
world == <<others, now, input, reader, output>>

\* What no step of a pure function changes.
store == <<fs, dirs, info, files, dsfile, dslines, mtime, others, now, cache,
           pc, loc, ret, pre, crashed, ops>>

\* The disk as a record, as kept in pre.
Snapshot == [fs |-> fs, dirs |-> dirs, info |-> info, files |-> files,
             dsfile |-> dsfile, dslines |-> dslines, mtime |-> mtime]

----------------------------------------------------------------------------
(* Bounds *)

MaxSuffix == 2      \* largest suffix number a probe may reach
MaxSize == 2        \* regular files have a byte length in 1..MaxSize
MaxOps == 4         \* calls and user actions per behaviour
MaxLines == 2       \* a directorysizes file has at most MaxLines lines
MaxTime == 1        \* the clock runs from second 0 to second MaxTime
MaxSteps == 3       \* decodings and encodings applied to one input

----------------------------------------------------------------------------
(* The universe: paths, identifiers, filesystem entries *)

Procs == {1, 2}

Path(d, n) == [dir |-> d, name |-> n]
Paths == {Path("a", "x"), Path("b", "x"), Path("m", "x_1")}

\* The trash lives on one device; directory "m" is the mount point of another.
TrashDev == "dev1"
Dev(p) == IF p.dir = "m" THEN "dev2" ELSE "dev1"

Digits == <<"1", "2", "3", "4", "5", "6", "7", "8", "9">>

NoEnt == [kind |-> "none"]
File(s) == [kind |-> "file", size |-> s]
Dir == [kind |-> "dir"]
Symlink(t) == [kind |-> "symlink", target |-> t]

NoRec == [kind |-> "none"]
\* A record file just created by create_new and not written yet is empty.
\* "by" is the process whose open file handle refers to the record file.
EmptyRec(o) == [kind |-> "empty", by |-> o]
Rec(p, o, t) == [kind |-> "trashinfo", path |-> p, deletion_time |-> t, by |-> o]

\* What else a foreign hand can leave at the name of a record file: a
\* directory, or a record file that may not be read.
DirRec == [kind |-> "dir"]
LockedRec == [kind |-> "locked"]

\* is_file() of an entry of the info directory
IsFile(r) == r.kind \in {"empty", "trashinfo", "locked"}

NoPath == [dir |-> "", name |-> ""]

\* const TRASHINFO_EXTENSION: &str = "trashinfo"
TRASHINFO_EXTENSION == "trashinfo"

\* A file name of the info directory: stem "." extension, or the stem alone.
FileName(stem, extension) == [stem |-> stem, extension |-> extension]

\* The names a foreign hand may give to files of the info directory that
\* are no records: x.bak, x.TRASHINFO and x_1 without extension.
OtherNames == {FileName("x", "bak"), FileName("x", "TRASHINFO"), FileName("x_1", "")}

\* identifier(path): the file-name component of the path.
Identifier(p) == p.name

\* The candidate probed with the given number: base, base_1, base_2, ...
Candidate(base_identifier, number) ==
    IF number = 0 THEN base_identifier
    ELSE base_identifier \o "_" \o Digits[number]

Names == {Identifier(p) : p \in Paths}
Ids == {Candidate(b, n) : b \in Names, n \in 0..MaxSuffix}

\* What a user may create at a free path q.
UserEntries(q) ==
    {File(s) : s \in 1..MaxSize} \cup {Dir} \cup {Symlink(t) : t \in Paths \ {q}}

----------------------------------------------------------------------------
(* Filesystem primitives used by the engine *)

\* Follow symbolic links from p; NoPath when the chain dangles or loops.
RECURSIVE Resolve(_, _, _)
Resolve(f, p, fuel) ==
    IF f[p].kind = "none" THEN NoPath
    ELSE IF f[p].kind = "symlink"
         THEN IF fuel = 0 THEN NoPath ELSE Resolve(f, f[p].target, fuel - 1)
         ELSE p

\* Utf8Path::canonicalize_utf8: the symlink-free path, NoPath on error.
Canonicalize(f, p) == Resolve(f, p, Cardinality(Paths))

\* Utf8Path::exists: follows symbolic links, so a dangling link does not exist.
Exists(f, p) == Canonicalize(f, p) # NoPath

\* exists() of a payload in the files directory.
PayloadExists(f, fl, id) ==
    /\ fl[id].kind # "none"
    /\ fl[id].kind = "symlink" => Exists(f, fl[id].target)

\* rename(2) of entry src onto entry dst: "ok" or the error.  Directories
\* created by the user hold files, so a directory is never replaced.
RenameResult(src, dst, srcDev, dstDev) ==
    IF src.kind = "none" THEN "ENOENT"
    ELSE IF srcDev # dstDev THEN "EXDEV"
    ELSE IF dst.kind = "none" THEN "ok"
    ELSE IF src.kind = "dir"
         THEN IF dst.kind = "dir" THEN "ENOTEMPTY" ELSE "ENOTDIR"
         ELSE IF dst.kind = "dir" THEN "EISDIR" ELSE "ok"

\* std::fs::remove_dir_all of a payload: it removes a directory tree or a
\* symbolic link and fails on any other entry.
RemoveDirAllResult(e) ==
    IF e.kind = "none" THEN "ENOENT"
    ELSE IF e.kind = "file" THEN "ENOTDIR"
    ELSE "ok"

----------------------------------------------------------------------------
(* Text.  A string is the sequence of its bytes (Rust strings are UTF-8),
   an unsigned 64-bit number is the sequence of its decimal digits without
   leading zeros, so that no value of the program exceeds TLC's
   integers. *)

\* The printable ASCII characters in the order of their codes, 32 to 126
\* (the grave accent, 96, by its name).
Ascii ==
    <<" ", "!", "\"", "#", "$", "%", "&", "'", "(", ")", "*", "+", ",", "-",
      ".", "/", "0", "1", "2", "3", "4", "5", "6", "7", "8", "9", ":", ";",
      "<", "=", ">", "?", "@", "A", "B", "C", "D", "E", "F", "G", "H", "I",
      "J", "K", "L", "M", "N", "O", "P", "Q", "R", "S", "T", "U", "V", "W",
      "X", "Y", "Z", "[", "\\", "]", "^", "_", "grave", "a", "b", "c", "d", "e",
      "f", "g", "h", "i", "j", "k", "l", "m", "n", "o", "p", "q", "r", "s",
      "t", "u", "v", "w", "x", "y", "z", "{", "|", "}", "~">>

\* The code of a printable ASCII character.
Ord(c) == 31 + (CHOOSE i \in DOMAIN Ascii : Ascii[i] = c)

\* The bytes of the string written as the sequence of its characters.
Str(chars) == [i \in DOMAIN chars |-> Ord(chars[i])]

\* The concatenation of a sequence of strings.
RECURSIVE Concat(_)
Concat(strings) ==
    IF strings = <<>> THEN <<>> ELSE Head(strings) \o Concat(Tail(strings))

\* Result<T>: Ok(value) or Err(error).
Ok(v) == [ok |-> TRUE, value |-> v]
Err(e) == [ok |-> FALSE, error |-> e]

\* char::is_whitespace, for the characters of one byte
IsWhitespace(b) == b \in {9, 10, 11, 12, 13, 32}

RECURSIVE TrimStart(_)
TrimStart(s) ==
    IF s # <<>> /\ IsWhitespace(Head(s)) THEN TrimStart(Tail(s)) ELSE s

RECURSIVE TrimEnd(_)
TrimEnd(s) ==
    IF s # <<>> /\ IsWhitespace(s[Len(s)])
    THEN TrimEnd(SubSeq(s, 1, Len(s) - 1))
    ELSE s

\* str::trim
Trim(s) == TrimEnd(TrimStart(s))

\* The longest prefix of s without whitespace.
RECURSIVE Word(_)
Word(s) ==
    IF s = <<>> \/ IsWhitespace(Head(s)) THEN <<>>
    ELSE <<Head(s)>> \o Word(Tail(s))

\* str::split_whitespace: the non-empty words between runs of whitespace
RECURSIVE SplitWhitespace(_)
SplitWhitespace(s) ==
    LET t == TrimStart(s) IN
    IF t = <<>> THEN <<>>
    ELSE <<Word(t)>> \o SplitWhitespace(SubSeq(t, Len(Word(t)) + 1, Len(t)))

\* std::str::from_utf8: whether the bytes are well-formed UTF-8
RECURSIVE IsUtf8(_)
IsUtf8(b) ==
    IF b = <<>> THEN TRUE
    ELSE LET c == b[1]
             n == IF c < 128 THEN 1
                  ELSE IF c \in 194..223 THEN 2
                  ELSE IF c \in 224..239 THEN 3
                  ELSE IF c \in 240..244 THEN 4
                  ELSE 0
         IN /\ n # 0
            /\ Len(b) >= n
            /\ \A i \in 2..n : b[i] \in 128..191
            /\ c = 224 => b[2] >= 160
            /\ c = 237 => b[2] <= 159
            /\ c = 240 => b[2] >= 144
            /\ c = 244 => b[2] <= 143
            /\ IsUtf8(SubSeq(b, n + 1, Len(b)))

IsDigit(b) == b \in 48..57

\* The digits of a number without its leading zeros.
RECURSIVE StripZeros(_)
StripZeros(d) == IF Len(d) > 1 /\ Head(d) = 0 THEN StripZeros(Tail(d)) ELSE d

\* a > b for numbers given by their digits
Greater(a, b) ==
    \/ Len(a) > Len(b)
    \/ /\ Len(a) = Len(b)
       /\ \E i \in DOMAIN a :
            /\ a[i] > b[i]
            /\ \A j \in 1..(i - 1) : a[j] = b[j]

\* u64::MAX = 18_446_744_073_709_551_615
U64Max == <<1, 8, 4, 4, 6, 7, 4, 4, 0, 7, 3, 7, 0, 9, 5, 5, 1, 6, 1, 5>>

\* str::parse::<u64>: an optional plus sign and at least one decimal digit,
\* of a value that fits in 64 bits.
ParseU64(s) ==
    LET digits == IF s # <<>> /\ Head(s) = Ord("+") THEN Tail(s) ELSE s IN
    IF digits = <<>> THEN Err("empty")
    ELSE IF \E i \in DOMAIN digits : ~IsDigit(digits[i]) THEN Err("invalid digit")
    ELSE LET n == StripZeros([i \in DOMAIN digits |-> digits[i] - 48]) IN
         IF Greater(n, U64Max) THEN Err("too large") ELSE Ok(n)

\* The value of a number given by its digits, for the numbers TLC
\* can hold.
RECURSIVE Value(_)
Value(d) ==
    IF d = <<>> THEN 0 ELSE 10 * Value(SubSeq(d, 1, Len(d) - 1)) + d[Len(d)]

\* The digits of a number that TLC can hold.
RECURSIVE ToDigits(_)
ToDigits(n) == IF n < 10 THEN <<n>> ELSE ToDigits(n \div 10) \o <<n % 10>>

\* u64::to_string
Decimal(d) == [i \in DOMAIN d |-> 48 + d[i]]

\* timestamp / 1000 on the digits: the last three digits are dropped.
DivThousand(d) == IF Len(d) <= 3 THEN <<0>> ELSE SubSeq(d, 1, Len(d) - 3)

IsHexDigit(b) == b \in (48..57) \cup (65..70) \cup (97..102)

HexValue(b) ==
    IF b \in 48..57 THEN b - 48 ELSE IF b \in 65..70 THEN b - 55 ELSE b - 87

\* urlencoding::decode_binary: every "%" followed by two hexadecimal digits
\* becomes the byte they name; any other "%" stands for itself.
RECURSIVE DecodeBinary(_)
DecodeBinary(data) ==
    IF data = <<>> THEN <<>>
    ELSE IF Head(data) # Ord("%") THEN <<Head(data)>> \o DecodeBinary(Tail(data))
    ELSE LET rest == Tail(data) IN
         IF Len(rest) < 2 THEN data
         ELSE IF ~IsHexDigit(rest[1]) THEN <<Ord("%")>> \o DecodeBinary(rest)
         ELSE IF ~IsHexDigit(rest[2])
              THEN <<Ord("%"), rest[1]>> \o DecodeBinary(Tail(rest))
         ELSE <<16 * HexValue(rest[1]) + HexValue(rest[2])>>
              \o DecodeBinary(SubSeq(rest, 3, Len(rest)))

\* urlencoding::decode: the decoded bytes as a string, an error when they
\* are no UTF-8.
UrlDecode(s) ==
    LET bytes == DecodeBinary(s) IN
    IF IsUtf8(bytes) THEN Ok(bytes) ELSE Err("invalid utf-8")

IsUnreserved(b) ==
    b \in (48..57) \cup (65..90) \cup (97..122) \cup {Ord("-"), Ord("_"), Ord("."), Ord("~")}

HexDigit(n) == IF n < 10 THEN 48 + n ELSE 55 + n

\* urlencoding::encode: every byte that is not a letter, a digit or one of
\* - _ . ~ becomes "%" and its two upper-case hexadecimal digits.
RECURSIVE UrlEncode(_)
UrlEncode(s) ==
    IF s = <<>> THEN <<>>
    ELSE (IF IsUnreserved(Head(s)) THEN <<Head(s)>>
          ELSE <<Ord("%"), HexDigit(Head(s) \div 16), HexDigit(Head(s) % 16)>>)
         \o UrlEncode(Tail(s))

----------------------------------------------------------------------------
(* The metadata record: the .trashinfo file (trash/info.rs), read and
   written with the rust-ini crate.  The texts of the model hold no quote
   and no backslash, which the crate would treat as quoting and escapes. *)

\* const SECTION_TRASH_INFO: &str = "Trash Info"
SECTION_TRASH_INFO == Str(<<"T", "r", "a", "s", "h", " ", "I", "n", "f", "o">>)
\* const ENTRY_PATH: &str = "Path"
ENTRY_PATH == Str(<<"P", "a", "t", "h">>)
\* const ENTRY_DELETION_DATE: &str = "DeletionDate"
ENTRY_DELETION_DATE == Str(<<"D", "e", "l", "e", "t", "i", "o", "n", "D", "a", "t", "e">>)

LineFeed == 10

\* The index of the first byte of s that is in the set, 0 when there is none.
FirstIndex(s, set) ==
    IF \E i \in DOMAIN s : s[i] \in set
    THEN CHOOSE i \in DOMAIN s : s[i] \in set /\ \A j \in 1..(i - 1) : s[j] \notin set
    ELSE 0

\* The lines of a text: what stands between its line feeds.
RECURSIVE Lines(_)
Lines(text) ==
    LET i == FirstIndex(text, {LineFeed}) IN
    IF text = <<>> THEN <<>>
    ELSE IF i = 0 THEN <<text>>
    ELSE <<SubSeq(text, 1, i - 1)>> \o Lines(SubSeq(text, i + 1, Len(text)))

\* A section of an Ini: its name (none for the general section) and its
\* properties in the order of the text, a key as often as the text has it.
Section(general, name, props) == [general |-> general, name |-> name, props |-> props]
Property(key, value) == [key |-> key, value |-> value]

\* Ini::new(): the general section, without properties
IniNew == <<Section(TRUE, <<>>, <<>>)>>

\* What the parser of rust-ini makes of one line: nothing of a blank line
\* or a comment, a section of "[name]", a property of "key=value" or
\* "key:value", key and value trimmed.
IniLine(line) ==
    LET t == Trim(line)
        close == FirstIndex(t, {Ord("]")})
        sep == FirstIndex(t, {Ord("="), Ord(":")})
    IN IF t = <<>> \/ t[1] \in {Ord(";"), Ord("#")} THEN [kind |-> "blank"]
       ELSE IF t[1] = Ord("[")
       THEN IF close = 0 THEN [kind |-> "error"]
            ELSE [kind |-> "section", name |-> Trim(SubSeq(t, 2, close - 1))]
       ELSE IF sep = 0 THEN [kind |-> "error"]
       ELSE IF sep = 1 THEN \* missing key
            [kind |-> "error"]
       ELSE [kind |-> "property",
             property |-> Property(TrimEnd(SubSeq(t, 1, sep - 1)),
                                   Trim(SubSeq(t, sep + 1, Len(t))))]

\* The parser's loop: a section header appends a section, also when one of
\* that name exists; a property is appended to the current section, which
\* is the last one.
RECURSIVE IniParse(_, _)
IniParse(lines, ini) ==
    IF lines = <<>> THEN Ok(ini)
    ELSE LET l == IniLine(Head(lines))
             last == ini[Len(ini)]
         IN IF l.kind = "error" THEN Err("parse error")
            ELSE IF l.kind = "blank" THEN IniParse(Tail(lines), ini)
            ELSE IF l.kind = "section"
            THEN IniParse(Tail(lines), Append(ini, Section(FALSE, l.name, <<>>)))
            ELSE IniParse(Tail(lines),
                          [ini EXCEPT ![Len(ini)] =
                              Section(last.general, last.name,
                                      Append(last.props, l.property))])

\* Ini::read_from
IniReadFrom(text) == IniParse(Lines(text), IniNew)

\* Ini::section(Some(name)): the first section of that name
IniSection(ini, name) ==
    LET found == {i \in DOMAIN ini : ~ini[i].general /\ ini[i].name = name} IN
    IF found = {} THEN Err("missing section")
    ELSE Ok(ini[CHOOSE i \in found : \A j \in found : i <= j])

\* Mutant: of the values of a key the last one is returned.
PropertiesGet_Last(props, key) ==
    LET found == {i \in DOMAIN props : props[i].key = key} IN
    IF found = {} THEN Err("missing entry")
    ELSE Ok(props[CHOOSE i \in found : \A j \in found : i >= j].value)

\* Properties::get(key): the first value of the key
PropertiesGet(props, key) ==
    LET found == {i \in DOMAIN props : props[i].key = key} IN
    IF found = {} THEN Err("missing entry")
    ELSE Ok(props[CHOOSE i \in found : \A j \in found : i <= j].value)

\* Ini::write_to: every section that is not empty, a blank line between
\* two of them, "[name]" and a line "key=value" for every property.
RECURSIVE IniWriteProps(_)
IniWriteProps(props) ==
    IF props = <<>> THEN <<>>
    ELSE Concat(<<Head(props).key, <<Ord("=")>>, Head(props).value, <<LineFeed>>>>)
         \o IniWriteProps(Tail(props))

RECURSIVE IniWriteSections(_, _)
IniWriteSections(ini, firstline) ==
    IF ini = <<>> THEN <<>>
    ELSE LET s == Head(ini) IN
         IF s.general /\ s.props = <<>> THEN IniWriteSections(Tail(ini), firstline)
         ELSE Concat(<<IF firstline THEN <<>> ELSE <<LineFeed>>,
                       IF s.general THEN <<>>
                       ELSE Concat(<<<<Ord("[")>>, s.name, <<Ord("]"), LineFeed>>>>),
                       IniWriteProps(s.props)>>)
              \o IniWriteSections(Tail(ini), FALSE)

IniWriteTo(ini) == IniWriteSections(ini, TRUE)

----------------------------------------------------------------------------
\* chrono::NaiveDateTime: a date of the proleptic Gregorian calendar and a
\* time of day; a leap second is second 59 with a nanosecond of
\* 1_000_000_000 or more.
NaiveDateTime(year, month, day, hour, minute, second, nanosecond) ==
    [year |-> year, month |-> month, day |-> day, hour |-> hour,
     minute |-> minute, second |-> second, nanosecond |-> nanosecond]

IsLeapYear(year) == year % 4 = 0 /\ (year % 100 # 0 \/ year % 400 = 0)

DaysInMonth(year, month) ==
    IF month = 2 THEN (IF IsLeapYear(year) THEN 29 ELSE 28)
    ELSE IF month \in {4, 6, 9, 11} THEN 30 ELSE 31

\* The years of a NaiveDate.
YearInRange(year) == year \in -262143..262142

\* The number of decimal digits s starts with.
RECURSIVE LeadingDigits(_)
LeadingDigits(s) ==
    IF s = <<>> \/ ~IsDigit(Head(s)) THEN 0 ELSE 1 + LeadingDigits(Tail(s))

\* What is left of the text after a scan, and the value scanned.
Scanned(rest, value) == [rest |-> rest, value |-> value]

\* scan::number(s, 1, max): the number of the first digits of s, at least
\* one and at most max (max = 0: as many as there are).  A number of more
\* than six significant digits is out of every range of a date or a time.
ScanNumber(s, max) ==
    LET n == IF max = 0 \/ LeadingDigits(s) < max THEN LeadingDigits(s) ELSE max
        digits == StripZeros([i \in 1..n |-> s[i] - 48])
    IN IF n = 0 THEN Err("invalid")
       ELSE IF Len(digits) > 6 THEN Err("out of range")
       ELSE Ok(Scanned(SubSeq(s, n + 1, Len(s)), Value(digits)))

\* A numeric item: leading whitespace is skipped; the year may bear a sign,
\* and then has as many digits as follow, else at most four; every other
\* field has at most two digits.
ScanNumeric(item, text) ==
    LET s == TrimStart(text) IN
    IF item # "year" THEN ScanNumber(s, 2)
    ELSE IF s # <<>> /\ Head(s) = Ord("-")
    THEN LET v == ScanNumber(Tail(s), 0) IN
         IF v.ok THEN Ok(Scanned(v.value.rest, 0 - v.value.value)) ELSE v
    ELSE IF s # <<>> /\ Head(s) = Ord("+") THEN ScanNumber(Tail(s), 0)
    ELSE ScanNumber(s, 4)

\* scan::nanosecond: up to nine digits are the fraction, further digits
\* are dropped.
RECURSIVE Pow10(_)
Pow10(n) == IF n = 0 THEN 1 ELSE 10 * Pow10(n - 1)

ScanNanosecond(s) ==
    LET all == LeadingDigits(s)
        n == IF all < 9 THEN all ELSE 9
    IN IF all = 0 THEN Err("invalid")
       ELSE Ok(Scanned(SubSeq(s, all + 1, Len(s)),
                       Value([i \in 1..n |-> s[i] - 48]) * Pow10(9 - n)))

\* The items of the format that NaiveDateTime::from_str parses
\* (%Y-%m-%dT%H:%M:%S%.f): numeric fields, whitespace, literals, and the
\* fraction of the second.
DateTimeItems ==
    <<"year", "space", "-", "month", "space", "-", "day", "space", "T",
      "hour", "space", ":", "minute", "space", ":", "second", "nanosecond",
      "space">>

Fields == {"year", "month", "day", "hour", "minute", "second"}

\* format::parse: the items in their order, each taking its part of the
\* text; what is left at the end is an error.
RECURSIVE ParseItems(_, _, _)
ParseItems(items, s, parsed) ==
    IF items = <<>> THEN (IF s = <<>> THEN Ok(parsed) ELSE Err("too long"))
    ELSE LET item == Head(items) IN
         IF item = "space" THEN ParseItems(Tail(items), TrimStart(s), parsed)
         ELSE IF item \in Fields
         THEN LET v == ScanNumeric(item, s) IN
              IF ~v.ok THEN v
              ELSE ParseItems(Tail(items), v.value.rest,
                              [parsed EXCEPT ![item] = v.value.value])
         ELSE IF item = "nanosecond"
         THEN IF s # <<>> /\ Head(s) = Ord(".")
              THEN LET v == ScanNanosecond(Tail(s)) IN
                   IF ~v.ok THEN v
                   ELSE ParseItems(Tail(items), v.value.rest,
                                   [parsed EXCEPT !.nanosecond = v.value.value])
              ELSE ParseItems(Tail(items), s, parsed)
         ELSE IF s # <<>> /\ Head(s) = Ord(item)
         THEN ParseItems(Tail(items), Tail(s), parsed)
         ELSE Err("invalid")

\* Parsed::to_naive_datetime: the fields must name a date and a time of
\* day; second 60 is the leap second after second 59.
ToNaiveDateTime(parsed) ==
    IF /\ YearInRange(parsed.year)
       /\ parsed.month \in 1..12
       /\ parsed.day \in 1..DaysInMonth(parsed.year, parsed.month)
       /\ parsed.hour \in 0..23
       /\ parsed.minute \in 0..59
       /\ parsed.second \in 0..60
    THEN Ok(IF parsed.second = 60
            THEN [parsed EXCEPT !.second = 59,
                                !.nanosecond = 1000000000 + parsed.nanosecond]
            ELSE parsed)
    ELSE Err("out of range")

\* str::parse::<NaiveDateTime>
ParseNaiveDateTime(s) ==
    LET parsed == ParseItems(DateTimeItems, s, NaiveDateTime(0, 0, 0, 0, 0, 0, 0)) IN
    IF ~parsed.ok THEN parsed ELSE ToNaiveDateTime(parsed.value)

\* The decimal digits of n, with zeros in front up to the width.
Pad(n, width) ==
    LET d == ToDigits(n) IN
    Decimal([i \in 1..(width - Len(d)) |-> 0] \o d)

\* deletion_time.format("%Y-%m-%dT%H:%M:%S"): the year with four digits, or
\* with its sign when it has more or is negative; the fraction of the second
\* is not written, a leap second is second 60.
FormatDeletionTime(t) ==
    Concat(<<IF t.year \in 0..9999 THEN Pad(t.year, 4)
             ELSE IF t.year < 0 THEN <<Ord("-")>> \o Pad(0 - t.year, 4)
             ELSE <<Ord("+")>> \o Pad(t.year, 4),
             <<Ord("-")>>, Pad(t.month, 2), <<Ord("-")>>, Pad(t.day, 2),
             <<Ord("T")>>, Pad(t.hour, 2), <<Ord(":")>>, Pad(t.minute, 2),
             <<Ord(":")>>, Pad(t.second + t.nanosecond \div 1000000000, 2)>>)

\* struct TrashInfo { path, deletion_time }
TrashInfo(path, deletion_time) == [path |-> path, deletion_time |-> deletion_time]

\* impl From<&TrashInfo> for Ini
IniFrom(trashinfo) ==
    IniNew \o <<Section(FALSE, SECTION_TRASH_INFO,
                        <<Property(ENTRY_PATH, UrlEncode(trashinfo.path)),
                          Property(ENTRY_DELETION_DATE,
                                   FormatDeletionTime(trashinfo.deletion_time))>>)>>

\* impl TryFrom<&Ini> for TrashInfo
TrashInfoTryFrom(ini) ==
    LET section == IniSection(ini, SECTION_TRASH_INFO) IN
    IF ~section.ok THEN Err("missing section")
    ELSE LET path_entry == PropertiesGet(section.value.props, ENTRY_PATH) IN
    IF ~path_entry.ok THEN Err("missing entry: Path")
    ELSE LET path == UrlDecode(path_entry.value) IN
    IF ~path.ok THEN Err("invalid path")
    ELSE LET deletion_date_entry ==
                 PropertiesGet(section.value.props, ENTRY_DELETION_DATE) IN
    IF ~deletion_date_entry.ok THEN Err("missing entry: DeletionDate")
    ELSE LET deletion_date == ParseNaiveDateTime(deletion_date_entry.value) IN
    IF ~deletion_date.ok THEN Err("invalid deletion date")
    ELSE Ok(TrashInfo(path.value, deletion_date.value))

\* TrashInfo::read_from
TrashInfoReadFrom(text) ==
    LET ini == IniReadFrom(text) IN
    IF ~ini.ok THEN ini ELSE TrashInfoTryFrom(ini.value)

\* TrashInfo::write_to
TrashInfoWriteTo(trashinfo) == IniWriteTo(IniFrom(trashinfo))

----------------------------------------------------------------------------
(* The size cache: the directorysizes file (trash/dir_sizes.rs) *)

\* const LIMIT: u64 = 7_258_122_000, roughly 2200-01-01 at midnight
LIMIT == <<7, 2, 5, 8, 1, 2, 2, 0, 0, 0>>

\* Mutant: the limit of an earlier version, roughly the year 2100.
CorrectedTimestamp_Year2100(timestamp) ==
    IF Greater(timestamp, <<4, 2, 0, 0, 0, 0, 0, 0, 0, 0>>)
    THEN DivThousand(timestamp)
    ELSE timestamp

\* Mutant: the limit itself is taken for milliseconds.
CorrectedTimestamp_AtLimit(timestamp) ==
    IF ~Greater(LIMIT, timestamp) THEN DivThousand(timestamp) ELSE timestamp

\* corrected_timestamp: timestamps after the limit are in milliseconds
CorrectedTimestamp(timestamp) ==
    IF Greater(timestamp, LIMIT) THEN DivThousand(timestamp) ELSE timestamp

DirSize(name, size, mt) == [name |-> name, size |-> size, mtime |-> mt]

\* DirSize::read_from_line: size, mtime and name, separated by whitespace
DirSizeReadFromLine(line) ==
    LET iter == SplitWhitespace(line) IN
    IF Len(iter) < 1 THEN Err("missing size")
    ELSE IF ~ParseU64(iter[1]).ok THEN Err("invalid size")
    ELSE IF Len(iter) < 2 THEN Err("missing mtime")
    ELSE IF ~ParseU64(iter[2]).ok THEN Err("invalid mtime")
    ELSE IF Len(iter) < 3 THEN Err("missing name")
    ELSE IF ~UrlDecode(iter[3]).ok THEN Err("invalid name")
    ELSE \* Additional fields, if any, are ignored
         Ok(DirSize(UrlDecode(iter[3]).value, ParseU64(iter[1]).value,
                    CorrectedTimestamp(ParseU64(iter[2]).value)))

\* DirSizes::new(): the mapping without entries
NoDirSizes == <<>>

\* One turn of the loop of read_from on a line that could be read: invalid
\* lines are ignored, a later line of a name replaces an earlier one.
DirSizesInsert(dir_sizes, line) ==
    LET dir_size == DirSizeReadFromLine(Trim(line)) IN
    IF dir_size.ok
    THEN (dir_size.value.name :> dir_size.value) @@ dir_sizes
    ELSE dir_sizes

\* read_from: the mapping of all lines, or the error of the first line that
\* cannot be read (reader.lines() fails on a line that is no UTF-8).
RECURSIVE DirSizesReadLines(_, _)
DirSizesReadLines(dir_sizes, lines) ==
    IF lines = <<>> THEN Ok(dir_sizes)
    ELSE IF ~IsUtf8(Head(lines)) THEN Err("invalid data")
    ELSE DirSizesReadLines(DirSizesInsert(dir_sizes, Head(lines)), Tail(lines))

DirSizesReadFrom(lines) == DirSizesReadLines(NoDirSizes, lines)

----------------------------------------------------------------------------
(* Process-local state *)

LocNone == [arg |-> NoPath, path |-> NoPath, deletion_time |-> 0, nanos |-> 0,
            identifier |-> "", number |-> 0, entry_count |-> 0]

\* The result of a call: its report or its error, and with it the argument,
\* the path and the identifier the call worked on.
RetNone == [op |-> "none", status |-> "none", arg |-> NoPath, path |-> NoPath,
            deletion_time |-> 0, nanos |-> 0, identifier |-> "", entries |-> {},
            entry_count |-> 0]

Result(op, status, v) ==
    [RetNone EXCEPT !.op = op, !.status = status, !.arg = v.arg, !.path = v.path,
                    !.deletion_time = v.deletion_time, !.nanos = v.nanos,
                    !.identifier = v.identifier, !.entry_count = v.entry_count]

\* The dir_sizes cell of a Trash value: OnceCell::new() holds nothing, and
\* once initialised it holds the loaded mapping for good.
Unset == [set |-> FALSE, map |-> <<>>]
Loaded(m) == [set |-> TRUE, map |-> m]

Idle(p) == pc[p] = "idle"

\* A call may start while the behaviour's budget lasts.
MayStart(p) == Idle(p) /\ ops < MaxOps

\* The call of p ends with result r.
Finish(p, r) ==
    /\ pc' = [pc EXCEPT ![p] = "idle"]
    /\ loc' = [loc EXCEPT ![p] = LocNone]
    /\ ret' = [ret EXCEPT ![p] = r]

\* The call of p moves on to position l with locals v.
Goto(p, l, v) ==
    /\ pc' = [pc EXCEPT ![p] = l]
    /\ loc' = [loc EXCEPT ![p] = v]
    /\ UNCHANGED ret

\* A call of p starts: remember the disk and spend one unit of budget.
Begin(p) ==
    /\ pre' = [pre EXCEPT ![p] = Snapshot]
    /\ ops' = ops + 1
    /\ UNCHANGED <<crashed, cache, world>>

Step == UNCHANGED <<pre, ops, crashed, cache, world>>

\* The user's files when the trash is constructed; the trash itself has no
\* footprint on disk yet.
InitFs ==
    [q \in Paths |-> IF q = Path("a", "x") THEN File(1)
                     ELSE IF q = Path("b", "x") THEN File(2)
                     ELSE NoEnt]

\* Trash::new touches nothing: the store and its callers at the start.
InitStore ==
    /\ fs = InitFs
    /\ dirs = {}
    /\ info = [i \in Ids |-> NoRec]
    /\ files = [i \in Ids |-> NoEnt]
    /\ dsfile = FALSE
    /\ dslines = <<>>
    /\ mtime = [i \in Ids |-> 0]
    /\ others = {}
    /\ now = 0
    /\ cache = [p \in Procs |-> Unset]
    /\ pc = [p \in Procs |-> "idle"]
    /\ loc = [p \in Procs |-> LocNone]
    /\ ret = [p \in Procs |-> RetNone]
    /\ pre = [p \in Procs |->
                 [fs |-> InitFs, dirs |-> {}, info |-> [i \in Ids |-> NoRec],
                  files |-> [i \in Ids |-> NoEnt], dsfile |-> FALSE,
                  dslines |-> <<>>, mtime |-> [i \in Ids |-> 0]]]
    /\ crashed = FALSE
    /\ ops = 0

Init ==
    /\ InitStore
    /\ input = <<>>
    /\ reader = <<>>
    /\ output = <<>>

----------------------------------------------------------------------------
(* The info directory *)

\* read_dir of the info directory: the name of every entry and whether it
\* is a file.
ReadInfoDir(inf, oth) ==
    {[file_name |-> FileName(i, TRASHINFO_EXTENSION), is_file |-> IsFile(inf[i])] :
        i \in {j \in Ids : inf[j].kind # "none"}}
    \cup {[file_name |-> n, is_file |-> TRUE] : n \in oth}

\* Mutant: every entry of the info directory is taken for a record file.
TrashinfoPaths_All(d, inf, oth) ==
    IF "info" \notin d THEN {}
    ELSE {e.file_name : e \in ReadInfoDir(inf, oth)}

\* trashinfo_paths(): the files of the info directory with the extension
\* trashinfo; none when the directory is absent.
TrashinfoPaths(d, inf, oth) ==
    IF "info" \notin d THEN {}
    ELSE {e.file_name : e \in {f \in ReadInfoDir(inf, oth) :
              f.is_file /\ f.file_name.extension = TRASHINFO_EXTENSION}}

----------------------------------------------------------------------------
(* Trash::put *)

\* The suffix numbers of a base identifier that have no record yet.
FreeNumbers(base_identifier) ==
    {n \in 0..MaxSuffix : info[Candidate(base_identifier, n)].kind = "none"}

\* Local::now() reads the second of the clock and the nanoseconds within
\* it: the instants of the model are second 0 sharp and, from then on, half
\* past every second.
SubSecond(t) == IF t = 0 THEN 0 ELSE 500000000

\* Bound of the model: a put starts only while every process can still find
\* a free candidate within 0..MaxSuffix.
RoomFor(path) == Cardinality(FreeNumbers(Identifier(path))) >= Cardinality(Procs)

\* Mutant: the trash directories are created before the path is resolved.
PutCanonicalize_DirsFirst(p, arg) ==
    /\ MayStart(p)
    /\ Begin(p)
    /\ dirs' = {"base", "info", "files"}
    /\ LET path == Canonicalize(fs, arg) IN
       IF path = NoPath
       THEN Finish(p, Result("put", "not found", [LocNone EXCEPT !.arg = arg]))
       ELSE /\ RoomFor(path)
            /\ Goto(p, "put_create_dirs",
                    [LocNone EXCEPT !.arg = arg, !.path = path,
                                    !.deletion_time = now,
                                    !.nanos = SubSecond(now)])
    /\ UNCHANGED <<fs, info, files, dsfile, dslines, mtime>>

\* let path = path.as_ref().canonicalize_utf8()?;
\* let deletion_time = Local::now().naive_local();
PutCanonicalize(p, arg) ==
    /\ MayStart(p)
    /\ Begin(p)
    /\ LET path == Canonicalize(fs, arg) IN
       IF path = NoPath
       THEN Finish(p, Result("put", "not found", [LocNone EXCEPT !.arg = arg]))
       ELSE /\ RoomFor(path)
            /\ Goto(p, "put_create_dirs",
                    [LocNone EXCEPT !.arg = arg, !.path = path,
                                    !.deletion_time = now,
                                    !.nanos = SubSecond(now)])
    /\ UNCHANGED disk

\* self.create_dirs()?  (create_dir_all of base, info and files)
PutCreateDirs(p) ==
    /\ pc[p] = "put_create_dirs"
    /\ dirs' = {"base", "info", "files"}
    /\ Goto(p, "put_open", loc[p])
    /\ Step
    /\ UNCHANGED <<fs, info, files, dsfile, dslines, mtime>>

\* Mutant: the record file is opened with create instead of create_new, so an
\* existing record is opened and truncated.
PutOpenNew_Create(p) ==
    /\ pc[p] = "put_open"
    /\ LET identifier == Candidate(Identifier(loc[p].path), loc[p].number) IN
       /\ info' = [info EXCEPT ![identifier] = EmptyRec(p)]
       /\ mtime' = [mtime EXCEPT ![identifier] = now]
       /\ Goto(p, "put_write", [loc[p] EXCEPT !.identifier = identifier])
    /\ Step
    /\ UNCHANGED <<fs, dirs, files, dsfile, dslines>>

\* Mutant: on AlreadyExists the number is increased by two.
PutOpenNew_SkipOne(p) ==
    /\ pc[p] = "put_open"
    /\ LET identifier == Candidate(Identifier(loc[p].path), loc[p].number) IN
       IF info[identifier].kind = "none"
       THEN /\ info' = [info EXCEPT ![identifier] = EmptyRec(p)]
            /\ mtime' = [mtime EXCEPT ![identifier] = now]
            /\ Goto(p, "put_write", [loc[p] EXCEPT !.identifier = identifier])
       ELSE /\ loc[p].number + 2 <= MaxSuffix
            /\ Goto(p, "put_open", [loc[p] EXCEPT !.number = @ + 2])
            /\ UNCHANGED <<info, mtime>>
    /\ Step
    /\ UNCHANGED <<fs, dirs, files, dsfile, dslines>>

\* Mutant: a record whose payload is missing is taken over.
PutOpenNew_Reuse(p) ==
    /\ pc[p] = "put_open"
    /\ LET identifier == Candidate(Identifier(loc[p].path), loc[p].number) IN
       IF "info" \notin dirs
       THEN /\ Finish(p, Result("put", "cannot create trashinfo file", loc[p]))
            /\ UNCHANGED <<info, mtime>>
       ELSE IF info[identifier].kind = "none" \/ files[identifier].kind = "none"
       THEN /\ info' = [info EXCEPT ![identifier] = EmptyRec(p)]
            /\ mtime' = [mtime EXCEPT ![identifier] = now]
            /\ Goto(p, "put_write", [loc[p] EXCEPT !.identifier = identifier])
       ELSE /\ loc[p].number < MaxSuffix
            /\ Goto(p, "put_open", [loc[p] EXCEPT !.number = @ + 1])
            /\ UNCHANGED <<info, mtime>>
    /\ Step
    /\ UNCHANGED <<fs, dirs, files, dsfile, dslines>>

\* One turn of the loop of open_new_trashinfo_file: create_new of the
\* candidate's record file.
PutOpenNew(p) ==
    /\ pc[p] = "put_open"
    /\ LET identifier == Candidate(Identifier(loc[p].path), loc[p].number) IN
       IF "info" \notin dirs
       THEN \* another error than AlreadyExists
            /\ Finish(p, Result("put", "cannot create trashinfo file", loc[p]))
            /\ UNCHANGED <<info, mtime>>
       ELSE IF info[identifier].kind = "none"
       THEN \* the trashinfo file could be created
            /\ info' = [info EXCEPT ![identifier] = EmptyRec(p)]
            /\ mtime' = [mtime EXCEPT ![identifier] = now]
            /\ Goto(p, "put_write", [loc[p] EXCEPT !.identifier = identifier])
       ELSE \* ErrorKind::AlreadyExists
            /\ loc[p].number < MaxSuffix
            /\ Goto(p, "put_open", [loc[p] EXCEPT !.number = @ + 1])
            /\ UNCHANGED <<info, mtime>>
    /\ Step
    /\ UNCHANGED <<fs, dirs, files, dsfile, dslines>>

\* Mutant: the record is not written before the payload is moved.
PutWrite_Lost(p) ==
    /\ pc[p] = "put_write"
    /\ Goto(p, "put_rename", loc[p])
    /\ Step
    /\ UNCHANGED disk

\* Mutant: the record holds the path as given, not the canonical path.
PutWrite_ArgPath(p) ==
    /\ pc[p] = "put_write"
    /\ info' = [info EXCEPT ![loc[p].identifier] = Rec(loc[p].arg, p, loc[p].deletion_time)]
    /\ mtime' = [mtime EXCEPT ![loc[p].identifier] = now]
    /\ Goto(p, "put_rename", loc[p])
    /\ Step
    /\ UNCHANGED <<fs, dirs, files, dsfile, dslines>>

\* Mutant: the deletion time is rounded to the nearest second.
PutWrite_Rounded(p) ==
    /\ pc[p] = "put_write"
    /\ LET identifier == loc[p].identifier
           seconds == IF 2 * loc[p].nanos >= 1000000000
                      THEN loc[p].deletion_time + 1 ELSE loc[p].deletion_time
       IN IF info[identifier].kind # "none" /\ info[identifier].by = p
          THEN /\ info' = [info EXCEPT ![identifier] = Rec(loc[p].path, p, seconds)]
               /\ mtime' = [mtime EXCEPT ![identifier] = now]
          ELSE UNCHANGED <<info, mtime>>
    /\ Goto(p, "put_rename", loc[p])
    /\ Step
    /\ UNCHANGED <<fs, dirs, files, dsfile, dslines>>

\* trashinfo.write_to(&mut BufWriter::new(trashinfo_file))?
\* The write goes to the file the handle refers to, wherever it is linked.
PutWrite(p) ==
    /\ pc[p] = "put_write"
    /\ LET identifier == loc[p].identifier IN
       IF info[identifier].kind # "none" /\ info[identifier].by = p
       THEN /\ info' = [info EXCEPT ![identifier] = Rec(loc[p].path, p, loc[p].deletion_time)]
            /\ mtime' = [mtime EXCEPT ![identifier] = now]
       ELSE UNCHANGED <<info, mtime>>
    /\ Goto(p, "put_rename", loc[p])
    /\ Step
    /\ UNCHANGED <<fs, dirs, files, dsfile, dslines>>

\* Mutant: the source is copied into the files directory and stays at its
\* path.
PutRename_Copy(p) ==
    /\ pc[p] = "put_rename"
    /\ LET path == loc[p].path
           identifier == loc[p].identifier
           result == IF "files" \notin dirs THEN "ENOENT"
                     ELSE RenameResult(fs[path], files[identifier], Dev(path), TrashDev)
       IN IF result = "ok"
          THEN /\ files' = [files EXCEPT ![identifier] = fs[path]]
               /\ Finish(p, Result("put", "ok", loc[p]))
          ELSE /\ Finish(p, Result("put", result, loc[p]))
               /\ UNCHANGED files
    /\ Step
    /\ UNCHANGED <<fs, dirs, info, dsfile, dslines, mtime>>

\* rename(&path, &file_path)? and the report
PutRename(p) ==
    /\ pc[p] = "put_rename"
    /\ LET path == loc[p].path
           identifier == loc[p].identifier
           result == IF "files" \notin dirs THEN "ENOENT"
                     ELSE RenameResult(fs[path], files[identifier], Dev(path), TrashDev)
       IN IF result = "ok"
          THEN /\ files' = [files EXCEPT ![identifier] = fs[path]]
               /\ fs' = [fs EXCEPT ![path] = NoEnt]
               /\ Finish(p, Result("put", "ok", loc[p]))
          ELSE /\ Finish(p, Result("put", result, loc[p]))
               /\ UNCHANGED <<fs, files>>
    /\ Step
    /\ UNCHANGED <<dirs, info, dsfile, dslines, mtime>>

Put(p) ==
    \/ \E arg \in Paths : PutCanonicalize(p, arg)
    \/ PutCreateDirs(p)
    \/ PutOpenNew(p)
    \/ PutWrite(p)
    \/ PutRename(p)

----------------------------------------------------------------------------
(* Trash::restore *)

\* Mutant: the report carries the time of the restore.
RestoreRead_Now(p, identifier) ==
    /\ \/ MayStart(p) /\ Begin(p)
       \/ pc[p] = "call_restore" /\ loc[p].identifier = identifier /\ Step
    /\ LET v == [LocNone EXCEPT !.identifier = identifier] IN
       IF info[identifier].kind \in {"none", "locked"}
       THEN Finish(p, Result("restore", "cannot open trashinfo file", v))
       ELSE IF info[identifier].kind \in {"empty", "dir"}
       THEN Finish(p, Result("restore", "cannot read trashinfo file", v))
       ELSE Goto(p, "restore_check_original",
                 [v EXCEPT !.path = info[identifier].path,
                           !.deletion_time = now])
    /\ UNCHANGED disk

\* File::open of the record and TrashInfo::read_from
RestoreRead(p, identifier) ==
    /\ \/ MayStart(p) /\ Begin(p)
       \/ pc[p] = "call_restore" /\ loc[p].identifier = identifier /\ Step
    /\ LET v == [LocNone EXCEPT !.identifier = identifier] IN
       IF info[identifier].kind \in {"none", "locked"}
       THEN Finish(p, Result("restore", "cannot open trashinfo file", v))
       ELSE IF info[identifier].kind \in {"empty", "dir"}
       THEN Finish(p, Result("restore", "cannot read trashinfo file", v))
       ELSE Goto(p, "restore_check_original",
                 [v EXCEPT !.path = info[identifier].path,
                           !.deletion_time = info[identifier].deletion_time])
    /\ UNCHANGED disk

\* if original_path.exists() { bail!(...) }
RestoreCheckOriginal(p) ==
    /\ pc[p] = "restore_check_original"
    /\ IF Exists(fs, loc[p].path)
       THEN Finish(p, Result("restore", "already exists", loc[p]))
       ELSE Goto(p, "restore_check_file", loc[p])
    /\ Step
    /\ UNCHANGED disk

\* Mutant: a record without payload is cleaned up on the way out.
RestoreCheckFile_DropRecord(p) ==
    /\ pc[p] = "restore_check_file"
    /\ IF ~PayloadExists(fs, files, loc[p].identifier)
       THEN /\ info' = [info EXCEPT ![loc[p].identifier] = NoRec]
            /\ Finish(p, Result("restore", "not found", loc[p]))
       ELSE /\ Goto(p, "restore_rename", loc[p])
            /\ UNCHANGED info
    /\ Step
    /\ UNCHANGED <<fs, dirs, files, dsfile, dslines, mtime>>

\* if !file_path.exists() { bail!(...) }
RestoreCheckFile(p) ==
    /\ pc[p] = "restore_check_file"
    /\ IF ~PayloadExists(fs, files, loc[p].identifier)
       THEN Finish(p, Result("restore", "not found", loc[p]))
       ELSE Goto(p, "restore_rename", loc[p])
    /\ Step
    /\ UNCHANGED disk

\* Mutant: the record is removed first, the payload moved afterwards.
RestoreRename_RemoveFirst(p) ==
    /\ pc[p] = "restore_rename"
    /\ info' = [info EXCEPT ![loc[p].identifier] = NoRec]
    /\ Goto(p, "restore_remove", loc[p])
    /\ Step
    /\ UNCHANGED <<fs, dirs, files, dsfile, dslines, mtime>>

\* Mutant: the payload is copied to the original path and stays in the files
\* directory.
RestoreRename_Copy(p) ==
    /\ pc[p] = "restore_rename"
    /\ LET original_path == loc[p].path
           identifier == loc[p].identifier
           result == RenameResult(files[identifier], fs[original_path],
                                  TrashDev, Dev(original_path))
       IN IF result = "ok"
          THEN /\ fs' = [fs EXCEPT ![original_path] = files[identifier]]
               /\ Goto(p, "restore_remove", loc[p])
          ELSE /\ Finish(p, Result("restore", result, loc[p]))
               /\ UNCHANGED fs
    /\ Step
    /\ UNCHANGED <<dirs, info, files, dsfile, dslines, mtime>>

\* rename(&file_path, original_path)
RestoreRename(p) ==
    /\ pc[p] = "restore_rename"
    /\ LET original_path == loc[p].path
           identifier == loc[p].identifier
           result == RenameResult(files[identifier], fs[original_path],
                                  TrashDev, Dev(original_path))
       IN IF result = "ok"
          THEN /\ fs' = [fs EXCEPT ![original_path] = files[identifier]]
               /\ files' = [files EXCEPT ![identifier] = NoEnt]
               /\ Goto(p, "restore_remove", loc[p])
          ELSE /\ Finish(p, Result("restore", result, loc[p]))
               /\ UNCHANGED <<fs, files>>
    /\ Step
    /\ UNCHANGED <<dirs, info, dsfile, dslines, mtime>>

\* Mutant: the records of all items trashed from the same path are removed.
RestoreRemove_SamePath(p) ==
    /\ pc[p] = "restore_remove"
    /\ LET identifier == loc[p].identifier IN
       IF ~IsFile(info[identifier])
       THEN /\ Finish(p, Result("restore", "cannot remove trashinfo file", loc[p]))
            /\ UNCHANGED info
       ELSE /\ info' = [i \in Ids |->
                          IF info[i].kind = "trashinfo" /\ info[i].path = loc[p].path
                          THEN NoRec ELSE info[i]]
            /\ Finish(p, Result("restore", "ok", loc[p]))
    /\ Step
    /\ UNCHANGED <<fs, dirs, files, dsfile, dslines, mtime>>

\* remove_file(&trashinfo_path) and the report
RestoreRemove(p) ==
    /\ pc[p] = "restore_remove"
    /\ LET identifier == loc[p].identifier IN
       IF ~IsFile(info[identifier])
       THEN /\ Finish(p, Result("restore", "cannot remove trashinfo file", loc[p]))
            /\ UNCHANGED info
       ELSE /\ info' = [info EXCEPT ![identifier] = NoRec]
            /\ Finish(p, Result("restore", "ok", loc[p]))
    /\ Step
    /\ UNCHANGED <<fs, dirs, files, dsfile, dslines, mtime>>

Restore(p) ==
    \/ \E identifier \in Ids : RestoreRead(p, identifier)
    \/ RestoreCheckOriginal(p)
    \/ RestoreCheckFile(p)
    \/ RestoreRename(p)
    \/ RestoreRemove(p)

----------------------------------------------------------------------------
(* Trash::empty *)

\* self.trashinfo_paths()?  (read_dir_utf8_or_empty of the info directory)
EmptyStart(p) ==
    /\ MayStart(p)
    /\ Begin(p)
    /\ Goto(p, "empty_trashinfo", LocNone)
    /\ UNCHANGED disk

\* Mutant: the removed records are counted as well.
EmptyRemoveTrashinfo_Counted(p) ==
    /\ pc[p] = "empty_trashinfo"
    /\ \E path \in TrashinfoPaths(dirs, info, others) :
         info' = [info EXCEPT ![path.stem] = NoRec]
    /\ Goto(p, "empty_trashinfo", [loc[p] EXCEPT !.entry_count = @ + 1])
    /\ Step
    /\ UNCHANGED <<fs, dirs, files, dsfile, dslines, mtime>>

\* remove_file(&trashinfo_path) of the next record the directory yields
EmptyRemoveTrashinfo(p) ==
    /\ pc[p] = "empty_trashinfo"
    /\ \E path \in TrashinfoPaths(dirs, info, others) :
         info' = [info EXCEPT ![path.stem] = NoRec]
    /\ Goto(p, "empty_trashinfo", loc[p])
    /\ Step
    /\ UNCHANGED <<fs, dirs, files, dsfile, dslines, mtime>>

\* The records are exhausted: self.files_dir.read_dir_utf8()?
EmptyReadFilesDir(p) ==
    /\ pc[p] = "empty_trashinfo"
    /\ TrashinfoPaths(dirs, info, others) = {}
    /\ IF "files" \notin dirs
       THEN Finish(p, Result("empty", "cannot read files directory", loc[p]))
       ELSE Goto(p, "empty_files", loc[p])
    /\ Step
    /\ UNCHANGED disk

\* Mutant: a payload that is no directory is unlinked, and the error of
\* remove_dir_all is returned all the same.
EmptyRemoveFile_Unlink(p) ==
    /\ pc[p] = "empty_files"
    /\ \E identifier \in Ids :
         /\ files[identifier].kind # "none"
         /\ files' = [files EXCEPT ![identifier] = NoEnt]
         /\ IF RemoveDirAllResult(files[identifier]) = "ok"
            THEN Goto(p, "empty_files", [loc[p] EXCEPT !.entry_count = @ + 1])
            ELSE Finish(p, Result("empty", "cannot remove file", loc[p]))
    /\ Step
    /\ UNCHANGED <<fs, dirs, info, dsfile, dslines, mtime>>

\* remove_dir_all(file_path) of the next payload the directory yields
EmptyRemoveFile(p) ==
    /\ pc[p] = "empty_files"
    /\ \E identifier \in Ids :
         /\ files[identifier].kind # "none"
         /\ IF RemoveDirAllResult(files[identifier]) = "ok"
            THEN /\ files' = [files EXCEPT ![identifier] = NoEnt]
                 /\ Goto(p, "empty_files", [loc[p] EXCEPT !.entry_count = @ + 1])
            ELSE /\ Finish(p, Result("empty", "cannot remove file", loc[p]))
                 /\ UNCHANGED files
    /\ Step
    /\ UNCHANGED <<fs, dirs, info, dsfile, dslines, mtime>>

\* Mutant: the directorysizes file is left in place.
EmptyRemoveDirSizes_Keep(p) ==
    /\ pc[p] = "empty_files"
    /\ \A identifier \in Ids : files[identifier].kind = "none"
    /\ IF dsfile
       THEN Finish(p, Result("empty", "ok", loc[p]))
       ELSE Finish(p, Result("empty", "cannot remove directorysizes file", loc[p]))
    /\ UNCHANGED <<dsfile, dslines>>
    /\ Step
    /\ UNCHANGED <<fs, dirs, info, files, mtime>>

\* Mutant: an absent directorysizes file is no error.
EmptyRemoveDirSizes_Tolerant(p) ==
    /\ pc[p] = "empty_files"
    /\ \A identifier \in Ids : files[identifier].kind = "none"
    /\ dsfile' = FALSE
    /\ dslines' = <<>>
    /\ Finish(p, Result("empty", "ok", loc[p]))
    /\ Step
    /\ UNCHANGED <<fs, dirs, info, files, mtime>>

\* The payloads are exhausted: remove_file(directorysizes_file) and the report
EmptyRemoveDirSizes(p) ==
    /\ pc[p] = "empty_files"
    /\ \A identifier \in Ids : files[identifier].kind = "none"
    /\ IF dsfile
       THEN /\ dsfile' = FALSE
            /\ dslines' = <<>>
            /\ Finish(p, Result("empty", "ok", loc[p]))
       ELSE /\ Finish(p, Result("empty", "cannot remove directorysizes file", loc[p]))
            /\ UNCHANGED <<dsfile, dslines>>
    /\ Step
    /\ UNCHANGED <<fs, dirs, info, files, mtime>>

Empty(p) ==
    \/ EmptyStart(p)
    \/ EmptyRemoveTrashinfo(p)
    \/ EmptyReadFilesDir(p)
    \/ EmptyRemoveFile(p)
    \/ EmptyRemoveDirSizes(p)

----------------------------------------------------------------------------
(* Trash::entries *)

\* The bytes of an identifier: of a base name, or of a base name, "_" and
\* the number.
NameBytes(name) ==
    IF name = "x" THEN Str(<<"x">>) ELSE Str(<<"x", "_", "1">>)

IdBytes(identifier) ==
    LET c == CHOOSE c \in Names \X (0..MaxSuffix) : Candidate(c[1], c[2]) = identifier
    IN IF c[2] = 0 THEN NameBytes(c[1])
       ELSE NameBytes(c[1]) \o Str(<<"_", Digits[c[2]]>>)

\* metadata.mtime() as u64 of a file modified in second t of the model; the
\* first second of the model is 1_700_000_000 since the Epoch.
Seconds(t) == ToDigits(1700000000 + t)

\* Mutant: the lines that are no UTF-8 are left out.
LoadDirSizes_Lossy(exists, lines) ==
    IF ~exists THEN Err("cannot open")
    ELSE DirSizesReadFrom(SelectSeq(lines, LAMBDA line : IsUtf8(line)))

\* load_dir_sizes(): File::open of the directorysizes file and read_from
LoadDirSizes(exists, lines) ==
    IF ~exists THEN Err("cannot open") ELSE DirSizesReadFrom(lines)

\* .unwrap_or_default(): if the directory sizes cannot be loaded, an empty map
UnwrapOrDefault(result) == IF result.ok THEN result.value ELSE NoDirSizes

\* Mutant: the directory sizes are loaded on every use.
DirSizesOf_Reload(cell, exists, lines) ==
    Loaded(UnwrapOrDefault(LoadDirSizes(exists, lines)))

\* dir_sizes(): get_or_init of the cell; the cell as it is afterwards
DirSizesOf(cell, exists, lines) ==
    IF cell.set THEN cell
    ELSE Loaded(UnwrapOrDefault(LoadDirSizes(exists, lines)))

\* Mutant: a cached size is used whatever its mtime.
DirSizeLookup_AnyMtime(dir_sizes, identifier, trashinfo_mtime) ==
    IF IdBytes(identifier) \in DOMAIN dir_sizes
    THEN Value(dir_sizes[IdBytes(identifier)].size)
    ELSE 0

\* The size of a directory payload (new_entry, "the file is a directory").
DirSizeLookup(dir_sizes, identifier, trashinfo_mtime) ==
    IF /\ IdBytes(identifier) \in DOMAIN dir_sizes
       /\ dir_sizes[IdBytes(identifier)].mtime = trashinfo_mtime
    THEN Value(dir_sizes[IdBytes(identifier)].size)
    ELSE \* We don't compute the actual directory size here
         0

\* Whether new_entry of this record looks up the directory sizes.
LooksUp(inf, fl, identifier) ==
    inf[identifier].kind = "trashinfo" /\ fl[identifier].kind = "dir"

\* new_entry(): the entry of one record file, or the error of that item.
NewEntry(inf, fl, mt, dir_sizes, trashinfo_path) ==
    LET identifier == trashinfo_path.stem IN
    IF inf[identifier].kind # "trashinfo"
    THEN \* File::open or TrashInfo::read_from fails
         [identifier |-> identifier, ok |-> FALSE]
    ELSE IF fl[identifier].kind = "none"
    THEN \* cannot get metadata of file
         [identifier |-> identifier, ok |-> FALSE]
    ELSE [identifier |-> identifier, ok |-> TRUE,
          original_path |-> inf[identifier].path,
          deletion_time |-> inf[identifier].deletion_time,
          nanos |-> 0,
          size |-> IF fl[identifier].kind = "dir"
                   THEN DirSizeLookup(dir_sizes, identifier, Seconds(mt[identifier]))
                   ELSE IF fl[identifier].kind = "file" THEN fl[identifier].size
                   ELSE \* the length of the target of the symbolic link
                        2 + Len(fl[identifier].target.dir)
                          + Len(fl[identifier].target.name)]

\* Mutant: the enumeration ends at the first item that fails.
EntriesOf_StopAtError(d, inf, fl, mt, oth, dir_sizes) ==
    LET all == {NewEntry(inf, fl, mt, dir_sizes, path) :
                    path \in TrashinfoPaths(d, inf, oth)}
    IN IF \E e \in all : ~e.ok THEN {e \in all : ~e.ok} ELSE all

\* What entries() yields, collected.
EntriesOf(d, inf, fl, mt, oth, dir_sizes) ==
    {NewEntry(inf, fl, mt, dir_sizes, path) : path \in TrashinfoPaths(d, inf, oth)}

\* What entries() of the Trash value with this cell yields on this disk.
Listing(cell, d, oth) ==
    EntriesOf(d.dirs, d.info, d.files, d.mtime, oth,
              DirSizesOf(cell, d.dsfile, d.dslines).map)

\* Mutant: listing creates the trash directories when they are absent.
EntriesReadDir_CreateDirs(p) ==
    /\ MayStart(p)
    /\ Begin(p)
    /\ dirs' = {"base", "info", "files"}
    /\ Goto(p, "entries_collect", LocNone)
    /\ UNCHANGED <<fs, info, files, dsfile, dslines, mtime>>

\* entries(): read_dir_utf8_or_empty of the info directory
EntriesReadDir(p) ==
    /\ MayStart(p)
    /\ Begin(p)
    /\ Goto(p, "entries_collect", LocNone)
    /\ UNCHANGED disk

\* Mutant: a directorysizes file that cannot be loaded fails the listing.
EntriesCollect_Propagate(p) ==
    /\ pc[p] = "entries_collect"
    /\ LET looks_up == \E path \in TrashinfoPaths(dirs, info, others) :
                            LooksUp(info, files, path.stem)
           cell == IF looks_up THEN DirSizesOf(cache[p], dsfile, dslines)
                   ELSE cache[p]
       IN IF looks_up /\ ~cache[p].set /\ ~LoadDirSizes(dsfile, dslines).ok
          THEN /\ cache' = cache
               /\ Finish(p, [RetNone EXCEPT !.op = "entries",
                                            !.status = "cannot load directory sizes"])
          ELSE /\ cache' = [cache EXCEPT ![p] = cell]
               /\ Finish(p, [RetNone EXCEPT
                                !.op = "entries", !.status = "ok",
                                !.entries = EntriesOf(dirs, info, files, mtime,
                                                      others, cell.map)])
    /\ UNCHANGED <<disk, pre, ops, crashed, world>>

\* The caller runs the iterator to its end.  The first new_entry of a
\* directory payload initialises the cell of the directory sizes.
EntriesCollect(p) ==
    /\ pc[p] = "entries_collect"
    /\ LET cell == IF \E path \in TrashinfoPaths(dirs, info, others) :
                         LooksUp(info, files, path.stem)
                   THEN DirSizesOf(cache[p], dsfile, dslines)
                   ELSE cache[p]
       IN /\ cache' = [cache EXCEPT ![p] = cell]
          /\ Finish(p, [RetNone EXCEPT
                           !.op = "entries", !.status = "ok",
                           !.entries = EntriesOf(dirs, info, files, mtime, others,
                                                 cell.map)])
    /\ UNCHANGED <<disk, pre, ops, crashed, world>>

Entries(p) == EntriesReadDir(p) \/ EntriesCollect(p)

----------------------------------------------------------------------------
(* The restore command of the application without paths (App::restore) *)

\* deletion_time().cmp(): the Ordering of two deletion times
Cmp(a, b) == IF a < b THEN "Less" ELSE IF a = b THEN "Equal" ELSE "Greater"

\* Mutant: the oldest entry comes first.
Comparator_Ascending(entry1, entry2) ==
    Cmp(entry1.deletion_time, entry2.deletion_time)

\* comparator(&SortOrder::Date): by deletion time, descending
Comparator(entry1, entry2) == Cmp(entry2.deletion_time, entry1.deletion_time)

\* entries.filter_map(|entry| entry.ok()): the entries in error are discarded
OkEntries(entries) == {entry \in entries : entry.ok}

\* The entries that sort_by and first() can give: read_dir yields the record
\* files in no particular order and the sort is stable, so that every entry
\* that none of the others precedes can be the first.
SortedFirst(entries) ==
    {entry \in entries :
        \A other \in entries : Comparator(other, entry) # "Less"}

\* Trash::default(), trash.entries(), the sort and the choice of the entry,
\* and the prompt when the command is interactive on a terminal.
AppRestoreSelect(p) ==
    /\ MayStart(p)
    /\ Begin(p)
    /\ LET entries == OkEntries(Listing(Unset, Snapshot, others)) IN
       IF entries = {}
       THEN Finish(p, Result("restore command", "empty trash", LocNone))
       ELSE \E entry \in SortedFirst(entries), should_prompt, answer \in BOOLEAN :
              LET v == [LocNone EXCEPT !.identifier = entry.identifier,
                                       !.path = entry.original_path,
                                       !.deletion_time = entry.deletion_time]
              IN IF should_prompt /\ ~answer
                 THEN Finish(p, Result("restore command", "ok", v))
                 ELSE Goto(p, "call_restore", v)
    /\ UNCHANGED disk

\* match trash.restore(identifier): the call of the engine, which runs to
\* its report or its error
AppRestore(p) ==
    \/ AppRestoreSelect(p)
    \/ pc[p] # "idle" /\ Restore(p)

\* What the command returns after the call of the engine: Ok(()), or
\* bail!("{errors} not restored") with the one error counted.
AppRestoreResult(done) ==
    IF done.op = "restore command" THEN done.status
    ELSE IF done.status = "ok" THEN "ok"
    ELSE "1 not restored"

\* The restore command with paths.  The steps of the command between the
\* calls of the engine keep the arguments in input, the entries that are
\* still to restore in reader, and what became of the entries taken so far
\* in output.

\* An argument that is no UTF-8, which Utf8Path::from_path refuses.
NonUtf8Path == Path("\\xFF", "x")

\* The arguments of a command: one path, two paths, the same path twice, a
\* path that is no UTF-8, and such a path before another.
ArgLists ==
    {<<Path("a", "x")>>, <<Path("b", "x")>>,
     <<Path("a", "x"), Path("b", "x")>>, <<Path("a", "x"), Path("a", "x")>>,
     <<NonUtf8Path>>, <<NonUtf8Path, Path("a", "x")>>}

\* Mutant: the oldest entry of a path is found.
Finds_Oldest(entries) ==
    {find \in [Paths -> entries \cup {[ok |-> FALSE]}] :
        \A path \in Paths :
            LET matching == {entry \in entries : entry.original_path = path} IN
            IF matching = {} THEN ~find[path].ok
            ELSE /\ find[path] \in matching
                 /\ \A other \in matching :
                      find[path].deletion_time <= other.deletion_time}

\* entries.iter().find(|entry| entry.original_path() == path) for every
\* path: the first of the sorted entries with that original path, if any.
\* read_dir yields the records in no particular order and the sort is
\* stable, so that among the most recent ones any can be the first.
Finds(entries) ==
    {find \in [Paths -> entries \cup {[ok |-> FALSE]}] :
        \A path \in Paths :
            LET matching == {entry \in entries : entry.original_path = path} IN
            IF matching = {} THEN ~find[path].ok
            ELSE find[path] \in SortedFirst(matching)}

\* The entries to restore, in the order of the paths; a path without entry
\* is reported and gives none.
EntriesToRestore(paths, find) ==
    SelectSeq([k \in 1..Len(paths) |-> find[paths[k]]], LAMBDA entry : entry.ok)

\* A call of the engine has returned and the command has not yet counted it.
Pending == output # <<>> /\ output[Len(output)].status = "pending"

\* The paths are made absolute and those that are no UTF-8 are discarded and
\* counted as errors; then trash.entries(), the sort and the choice of the
\* entries.  When no path is left the command goes on as without paths.
AppRestorePathsSelect(p) ==
    /\ MayStart(p)
    /\ pre' = [pre EXCEPT ![p] = Snapshot]
    /\ ops' = ops + 1
    /\ \E args \in ArgLists :
         LET paths == SelectSeq(args, LAMBDA path : path \in Paths)
             entries == OkEntries(Listing(Unset, Snapshot, others))
         IN /\ output' = <<>>
            /\ IF paths # <<>>
               THEN /\ \E find \in Finds(entries) :
                         reader' = EntriesToRestore(paths, find)
                    /\ input' = args
                    /\ Goto(p, "restore_entries", LocNone)
               ELSE IF entries = {}
               THEN /\ UNCHANGED <<input, reader>>
                    /\ Finish(p, Result("restore command", "empty trash", LocNone))
               ELSE /\ \E entry \in SortedFirst(entries) : reader' = <<entry>>
                    /\ input' = args
                    /\ Goto(p, "restore_entries", LocNone)
    /\ UNCHANGED <<disk, crashed, cache, others, now>>

\* One turn of the loop over the entries: the prompt, when the command is
\* interactive on a terminal, and the call of trash.restore(identifier).
AppRestoreEntry(p) ==
    /\ pc[p] = "restore_entries"
    /\ reader # <<>>
    /\ LET entry == Head(reader)
           v == [LocNone EXCEPT !.identifier = entry.identifier,
                                !.path = entry.original_path,
                                !.deletion_time = entry.deletion_time]
       IN \E should_prompt, answer \in BOOLEAN :
            IF should_prompt /\ ~answer
            THEN /\ output' = Append(output, [identifier |-> entry.identifier,
                                              status |-> "declined"])
                 /\ UNCHANGED <<pc, loc, ret>>
            ELSE /\ output' = Append(output, [identifier |-> entry.identifier,
                                              status |-> "pending"])
                 /\ Goto(p, "call_restore", v)
    /\ reader' = Tail(reader)
    /\ UNCHANGED <<disk, pre, ops, crashed, cache, others, now, input>>

\* match trash.restore(identifier): restored += 1 or errors += 1
AppRestoreCount(p) ==
    /\ Idle(p)
    /\ Pending
    /\ output' = [output EXCEPT ![Len(output)].status = ret[p].status]
    /\ Goto(p, "restore_entries", LocNone)
    /\ UNCHANGED <<disk, pre, ops, crashed, cache, others, now, input, reader>>

\* The errors of a command: the arguments that are no UTF-8 and the calls
\* of the engine that returned an error.
Errors(args, results) ==
    Cardinality({k \in DOMAIN args : args[k] \notin Paths})
    + Cardinality({k \in DOMAIN results :
                      results[k].status \notin {"ok", "declined"}})

\* After the loop: bail!("{errors} not restored") or Ok(())
AppRestoreEnd(p) ==
    /\ pc[p] = "restore_entries"
    /\ reader = <<>>
    /\ Finish(p, [RetNone EXCEPT
                     !.op = "restore command",
                     !.status = IF Errors(input, output) > 0 THEN "not restored"
                                ELSE "ok",
                     !.entry_count = Errors(input, output)])
    /\ input' = <<>>
    /\ output' = <<>>
    /\ UNCHANGED <<disk, pre, ops, crashed, cache, others, now, reader>>

AppRestorePaths(p) ==
    \/ AppRestorePathsSelect(p)
    \/ AppRestoreEntry(p)
    \/ pc[p] # "idle" /\ Restore(p)
    \/ AppRestoreCount(p)
    \/ AppRestoreEnd(p)

\* A caller that restores what its put has just trashed: the identifier of
\* the report of the put goes to Trash::restore.
RestoreBack(p) ==
    /\ Idle(p)
    /\ ret[p].op = "put"
    /\ ret[p].status = "ok"
    /\ Goto(p, "call_restore", [LocNone EXCEPT !.identifier = ret[p].identifier])
    /\ Step
    /\ UNCHANGED disk

\* put(path) and then restore(identifier) of the same caller.
PutAndRestore(p) ==
    \/ Put(p)
    \/ RestoreBack(p)
    \/ pc[p] # "idle" /\ Restore(p)

----------------------------------------------------------------------------
(* The environment.  It acts between the calls, so that every call runs
   alone, to its end or to a crash. *)

AllIdle == \A p \in Procs : Idle(p)

\* The user creates a file, a directory or a symbolic link at a free path.
UserCreate ==
    /\ AllIdle
    /\ ops < MaxOps
    /\ ops' = ops + 1
    /\ \E q \in Paths :
         /\ fs[q].kind = "none"
         /\ \E e \in UserEntries(q) : fs' = [fs EXCEPT ![q] = e]
    /\ UNCHANGED <<dirs, info, files, dsfile, dslines, mtime, pc, loc, ret, pre,
                   crashed, cache, world>>

\* Another trash implementation creates the directorysizes file.
ExternCreateDirSizes ==
    /\ AllIdle
    /\ ops < MaxOps
    /\ ops' = ops + 1
    /\ "base" \in dirs
    /\ ~dsfile
    /\ dsfile' = TRUE
    /\ UNCHANGED <<fs, dirs, info, files, dslines, mtime, pc, loc, ret, pre,
                   crashed, cache, world>>

\* What an environment action leaves alone besides the disk.
callers == <<pc, loc, ret, pre, crashed, cache, input, reader, output>>

\* A foreign hand creates a directory at the name of a record file.
ExternMkdirInfo ==
    /\ AllIdle
    /\ ops < MaxOps
    /\ ops' = ops + 1
    /\ "info" \in dirs
    /\ \E i \in Ids :
         /\ info[i].kind = "none"
         /\ info' = [info EXCEPT ![i] = DirRec]
    /\ UNCHANGED <<fs, dirs, files, dsfile, dslines, mtime, others, now, callers>>

\* A foreign hand creates a file that is no record in the info directory.
ExternCreateOther ==
    /\ AllIdle
    /\ ops < MaxOps
    /\ ops' = ops + 1
    /\ "info" \in dirs
    /\ \E n \in OtherNames \ others : others' = others \cup {n}
    /\ UNCHANGED <<disk, now, callers>>

\* A foreign hand takes away the permission to read a record file.
ExternLock ==
    /\ AllIdle
    /\ ops < MaxOps
    /\ ops' = ops + 1
    /\ \E i \in Ids :
         /\ info[i].kind \in {"empty", "trashinfo"}
         /\ info' = [info EXCEPT ![i] = LockedRec]
    /\ UNCHANGED <<fs, dirs, files, dsfile, dslines, mtime, others, now, callers>>

\* The line another trash implementation writes for a trashed directory:
\* the size, the mtime of the record file in seconds or in milliseconds,
\* and the percent-encoded name.
CacheLine(size, t, millis, identifier) ==
    Concat(<<Decimal(ToDigits(size)), Str(<<" ">>),
             Decimal(Seconds(t) \o (IF millis THEN <<0, 0, 0>> ELSE <<>>)),
             Str(<<" ">>), UrlEncode(IdBytes(identifier))>>)

\* The bytes in the tree of a directory, by the place it was taken from.
TreeSize(path) == IF path.dir = "a" THEN 1 ELSE MaxSize

\* Another trash implementation appends the line of a trashed directory,
\* with the mtime its record file has by then, to the directorysizes file,
\* which it creates when it is absent.
ExternWriteDirSizes ==
    /\ AllIdle
    /\ ops < MaxOps
    /\ ops' = ops + 1
    /\ "base" \in dirs
    /\ Len(dslines) < MaxLines
    /\ \E i \in Ids, millis \in BOOLEAN :
         /\ files[i].kind = "dir"
         /\ info[i].kind = "trashinfo"
         /\ dslines' = Append(dslines, CacheLine(TreeSize(info[i].path), mtime[i],
                                                 millis, i))
    /\ dsfile' = TRUE
    /\ UNCHANGED <<fs, dirs, info, files, mtime, others, now, callers>>

\* A line that is no UTF-8: the lone byte FF.
InvalidUtf8Line == <<255>>

\* A foreign hand appends a line that is no text to the directorysizes file,
\* which it creates when it is absent.
ExternWriteNoText ==
    /\ AllIdle
    /\ ops < MaxOps
    /\ ops' = ops + 1
    /\ "base" \in dirs
    /\ Len(dslines) < MaxLines
    /\ dslines' = Append(dslines, InvalidUtf8Line)
    /\ dsfile' = TRUE
    /\ UNCHANGED <<fs, dirs, info, files, mtime, others, now, callers>>

\* Another trash implementation removes the directorysizes file.
ExternRemoveDirSizes ==
    /\ AllIdle
    /\ ops < MaxOps
    /\ ops' = ops + 1
    /\ dsfile
    /\ dsfile' = FALSE
    /\ dslines' = <<>>
    /\ UNCHANGED <<fs, dirs, info, files, mtime, others, now, callers>>

\* A second passes.
Tick ==
    /\ AllIdle
    /\ now < MaxTime
    /\ now' = now + 1
    /\ UNCHANGED <<disk, others, ops, callers>>

\* Another process creates a regular file at a free path, at any moment, also
\* between two filesystem calls of a call that is running.
OtherProcessCreate ==
    /\ ops < MaxOps
    /\ ops' = ops + 1
    /\ \E q \in Paths, s \in 1..MaxSize :
         /\ fs[q].kind = "none"
         /\ fs' = [fs EXCEPT ![q] = File(s)]
    /\ UNCHANGED <<dirs, info, files, dsfile, dslines, mtime, others, now, callers>>

\* The process running a call dies between two of its filesystem calls.
Crash(p) ==
    /\ ~Idle(p)
    /\ Finish(p, [RetNone EXCEPT !.status = "crashed"])
    /\ crashed' = TRUE
    /\ UNCHANGED <<disk, pre, ops, cache, world>>

----------------------------------------------------------------------------
(* Specifications *)

Call(p) == Put(p) \/ Restore(p) \/ Empty(p) \/ Entries(p) \/ Crash(p)

Environment == UserCreate \/ ExternCreateDirSizes

\* One process, and the environment between its calls.
Next == Call(1) \/ Environment

Spec == Init /\ [][Next]_vars

\* One process that puts, restores and lists, is interrupted, and finds the
\* info directory changed by foreign hands between its calls.
NextList ==
    \/ Put(1) \/ Restore(1) \/ Entries(1) \/ Crash(1)
    \/ ExternMkdirInfo \/ ExternCreateOther \/ ExternLock

SpecList == Init /\ [][NextList]_vars

\* The trash after the directory /a/x was put in second 0, and a directory
\* at /b/x.
SizesFs ==
    [q \in Paths |-> IF q = Path("b", "x") THEN Dir ELSE NoEnt]

SizesInfo ==
    [i \in Ids |-> IF i = "x" THEN Rec(Path("a", "x"), 1, 0) ELSE NoRec]

SizesFiles ==
    [i \in Ids |-> IF i = "x" THEN Dir ELSE NoEnt]

InitSizesWith(exists, lines) ==
    /\ fs = SizesFs
    /\ dirs = {"base", "info", "files"}
    /\ info = SizesInfo
    /\ files = SizesFiles
    /\ dsfile = exists
    /\ dslines = lines
    /\ mtime = [i \in Ids |-> 0]
    /\ others = {}
    /\ now = 0
    /\ cache = [p \in Procs |-> Unset]
    /\ pc = [p \in Procs |-> "idle"]
    /\ loc = [p \in Procs |-> LocNone]
    /\ ret = [p \in Procs |-> RetNone]
    /\ pre = [p \in Procs |->
                 [fs |-> SizesFs, dirs |-> {"base", "info", "files"},
                  info |-> SizesInfo, files |-> SizesFiles, dsfile |-> exists,
                  dslines |-> lines, mtime |-> [i \in Ids |-> 0]]]
    /\ crashed = FALSE
    /\ ops = 0
    /\ input = <<>>
    /\ reader = <<>>
    /\ output = <<>>

InitSizes == InitSizesWith(FALSE, <<>>)

\* One Trash value that puts, restores and lists while the clock runs and
\* another trash implementation writes and removes the directorysizes file.
NextSizes ==
    \/ Put(1) \/ Restore(1) \/ Entries(1)
    \/ ExternWriteDirSizes \/ ExternRemoveDirSizes \/ Tick

SpecSizes == InitSizes /\ [][NextSizes]_vars

\* One Trash value that puts and lists while the directorysizes file is
\* written, also with a line that is no text, and removed.
NextNoText ==
    \/ Put(1) \/ Entries(1)
    \/ ExternWriteDirSizes \/ ExternWriteNoText \/ ExternRemoveDirSizes

\* The directorysizes file is absent at the start, or holds one line that is
\* no text.
InitNoText == InitSizes \/ InitSizesWith(TRUE, <<InvalidUtf8Line>>)

SpecNoText == InitNoText /\ [][NextNoText]_vars

\* One process that puts, restores and empties while the clock runs, the user
\* creates files and another implementation creates the directorysizes file.
NextLife ==
    \/ Put(1) \/ Restore(1) \/ Empty(1)
    \/ UserCreate \/ ExternCreateDirSizes \/ Tick

SpecLife == Init /\ [][NextLife]_vars

\* The trash that holds the directory /a/x, filled further and emptied by one
\* process that can be interrupted, while the user creates files and another
\* implementation creates the directorysizes file.
NextEmpty ==
    \/ Put(1) \/ Empty(1) \/ Crash(1)
    \/ UserCreate \/ ExternCreateDirSizes

SpecEmpty == InitSizes /\ [][NextEmpty]_vars

\* The same process on a trash that was never used, or on the trash that
\* holds the directory /a/x.
InitFresh == Init \/ InitSizes

SpecFresh == InitFresh /\ [][NextEmpty]_vars

\* One process that puts and runs the restore command without paths, while
\* the clock runs and the user creates files.
NextApp ==
    \/ Put(1) \/ AppRestore(1)
    \/ UserCreate \/ Tick

SpecApp == Init /\ [][NextApp]_vars

\* One process that puts and runs the restore command with paths, while the
\* clock runs and regular files are created between the commands.
NextAppPaths ==
    \/ AppRestorePaths(1)
    \/ ~Pending /\ Put(1)
    \/ ~Pending /\ AllIdle /\ OtherProcessCreate
    \/ ~Pending /\ Tick

SpecAppPaths == Init /\ [][NextAppPaths]_vars

\* One process that puts and restores while another process creates files.
NextRace ==
    \/ Put(1) \/ Restore(1)
    \/ OtherProcessCreate

SpecRace == Init /\ [][NextRace]_vars

\* One process that puts, restores what it has just put, and empties, while
\* the clock runs; the user creates files except between a put and its
\* restore.
NextRoundTrip ==
    \/ PutAndRestore(1) \/ Empty(1)
    \/ ~(ret[1].op = "put" /\ ret[1].status = "ok") /\ UserCreate
    \/ Tick

SpecRoundTrip == Init /\ [][NextRoundTrip]_vars

\* A restore has been called by process p, and has returned or is running.
Restoring(p) ==
    \/ ret[p].op = "restore"
    \/ pc[p] \in {"restore_check_original", "restore_check_file",
                  "restore_rename", "restore_remove"}

\* Each process calls restore once, the second with the identifier of the
\* first, at any moment of the other's call.
RestoreSame(p) ==
    \/ /\ ~Restoring(p)
       /\ \A q \in Procs : Idle(q) \/ Restoring(q)
       /\ \E identifier \in Ids :
            /\ \A q \in Procs \ {p} :
                 Restoring(q) => identifier = (IF Idle(q) THEN ret[q].identifier
                                               ELSE loc[q].identifier)
            /\ RestoreRead(p, identifier)
    \/ pc[p] # "idle" /\ Restore(p)

\* One process puts, then both restore the same identifier concurrently;
\* before that the user creates files.
NextRestoreSame ==
    \/ (\A q \in Procs : ~Restoring(q)) /\ (Put(1) \/ UserCreate)
    \/ \E p \in Procs : RestoreSame(p)

SpecRestoreSame == Init /\ [][NextRestoreSame]_vars

\* A put has been called by process p, and has returned or is running.
Putting(p) == ret[p].op = "put" \/ ~Idle(p)

\* Each process calls put once, the second with the path of the first, at
\* any moment of the other's call.
PutSame(p) ==
    \/ /\ ~Putting(p)
       /\ \E arg \in Paths :
            /\ \A q \in Procs \ {p} :
                 Putting(q) => arg = (IF Idle(q) THEN ret[q].arg ELSE loc[q].arg)
            /\ PutCanonicalize(p, arg)
    \/ pc[p] # "idle" /\ Put(p)

\* The user creates files, then both processes put the same path
\* concurrently.
NextPutSame ==
    \/ (\A q \in Procs : ~Putting(q)) /\ UserCreate
    \/ \E p \in Procs : PutSame(p)

SpecPutSame == Init /\ [][NextPutSame]_vars

\* Process 1 calls put once.
PutOnce ==
    \/ ~Putting(1) /\ \E arg \in Paths : PutCanonicalize(1, arg)
    \/ pc[1] # "idle" /\ Put(1)

\* One caller puts one item and keeps the report; another lists and
\* restores, while the clock runs and the user creates files.
NextReport ==
    \/ PutOnce
    \/ Entries(2) \/ Restore(2)
    \/ Tick \/ UserCreate

SpecReport == Init /\ [][NextReport]_vars

\* Two processes that only put.
NextPut == \E p \in Procs : Put(p)

SpecPut == Init /\ [][NextPut]_vars

----------------------------------------------------------------------------
(* The pure functions of the size cache, applied to inputs of bounded sets *)

\* Timestamps about the limit, about the limit of the earlier version, of
\* the present day, in seconds and in milliseconds, and small ones: each
\* head with every tail of three digits.
TimestampHeads ==
    {<<0>>, <<1, 7, 0, 0, 0, 0, 0>>, <<4, 2, 0, 0, 0, 0, 0>>,
     <<7, 2, 5, 8, 1, 2, 1>>, <<7, 2, 5, 8, 1, 2, 2>>, <<7, 2, 5, 8, 1, 2, 3>>,
     <<9, 9, 9, 9, 9, 9, 9>>, <<1, 7, 0, 0, 0, 0, 0, 0, 0, 0>>,
     <<7, 2, 5, 8, 1, 2, 2, 0, 0, 0>>, <<1, 8, 4, 4, 6, 7, 4, 4, 0, 7, 3, 7, 0, 9, 5, 5, 1>>}

TimestampTails == [1..3 -> {0, 1, 9}]

Timestamps ==
    {StripZeros(h \o t) : h \in TimestampHeads, t \in TimestampTails} \cup {U64Max}

InitTimestamp ==
    /\ InitStore
    /\ input \in Timestamps
    /\ reader = <<>>
    /\ output = <<>>

\* let mtime = corrected_timestamp(mtime);
CorrectTimestamp ==
    /\ output = <<>>
    /\ output' = CorrectedTimestamp(input)
    /\ UNCHANGED <<store, input, reader>>

SpecTimestamp == InitTimestamp /\ [][CorrectTimestamp]_vars

\* Lines of a directorysizes file that read_from_line accepts:
\* "1 1700000000 x", "2 1700000001 x" (the same name again),
\* "2 1700000000000 x_1" (milliseconds), a line with tabs, an encoded name
\* and further fields, and "+2 007 %zz" (a sign, leading zeros and a "%"
\* that starts no escape).
LineSeconds ==
    Str(<<"1", " ", "1", "7", "0", "0", "0", "0", "0", "0", "0", "0", " ", "x">>)
LineAgain ==
    Str(<<"2", " ", "1", "7", "0", "0", "0", "0", "0", "0", "0", "1", " ", "x">>)
LineMillis ==
    Str(<<"2", " ", "1", "7", "0", "0", "0", "0", "0", "0", "0", "0", "0", "0",
          "0", " ", "x", "_", "1">>)
LineTabs ==
    <<9>> \o Str(<<"1", " ", " ", "1", "7", "0", "0", "0", "0", "0", "0", "0", "0">>)
    \o <<9>> \o Str(<<"x", "%", "5", "F", "1", " ", "e", "x", "t", "r", "a", " ",
                      "5", " ">>)
LineSign == Str(<<"+", "2", " ", "0", "0", "7", " ", "%", "z", "z">>)

GoodLines == {LineSeconds, LineAgain, LineMillis, LineTabs, LineSign}

\* Lines that read_from_line rejects: "", "  ", "1" and "1 1700000000"
\* (missing fields), "x 1 x", "-1 1 x" and "18446744073709551616 1 x"
\* (invalid size), "1 1.5 x" and "1 18446744073709551616 x" (invalid mtime),
\* "1 1 %FF" (the name is no UTF-8).
BadLines ==
    {<<>>,
     Str(<<" ", " ">>),
     Str(<<"1">>),
     Str(<<"1", " ", "1", "7", "0", "0", "0", "0", "0", "0", "0", "0">>),
     Str(<<"x", " ", "1", " ", "x">>),
     Str(<<"-", "1", " ", "1", " ", "x">>),
     Str(<<"1", "8", "4", "4", "6", "7", "4", "4", "0", "7", "3", "7", "0", "9",
           "5", "5", "1", "6", "1", "6", " ", "1", " ", "x">>),
     Str(<<"1", " ", "1", ".", "5", " ", "x">>),
     Str(<<"1", " ", "1", "8", "4", "4", "6", "7", "4", "4", "0", "7", "3", "7",
           "0", "9", "5", "5", "1", "6", "1", "6", " ", "x">>),
     Str(<<"1", " ", "1", " ", "%", "F", "F">>)}

\* A line that cannot be read as text: the lone byte FF.
NoTextLines == {<<255>>}

SampleLines == GoodLines \cup BadLines \cup NoTextLines

\* The files of at most MaxLines lines.
DirSizesFiles == UNION {[1..n -> SampleLines] : n \in 0..MaxLines}

InitDirSizes ==
    /\ InitStore
    /\ input \in DirSizesFiles
    /\ reader = input
    /\ output = Ok(NoDirSizes)

\* Mutant: the first invalid line ends the loading.
DirSizesReadLine_StopAtInvalid ==
    /\ reader # <<>>
    /\ output.ok
    /\ IsUtf8(Head(reader))
    /\ output' = Ok(DirSizesInsert(output.value, Head(reader)))
    /\ reader' = IF DirSizeReadFromLine(Trim(Head(reader))).ok
                  THEN Tail(reader) ELSE <<>>
    /\ UNCHANGED <<store, input>>

\* One turn of the loop of read_from on a line that can be read.
DirSizesReadLine ==
    /\ reader # <<>>
    /\ output.ok
    /\ IsUtf8(Head(reader))
    /\ output' = Ok(DirSizesInsert(output.value, Head(reader)))
    /\ reader' = Tail(reader)
    /\ UNCHANGED <<store, input>>

\* let line = line?;  on a line that cannot be read
DirSizesReadError ==
    /\ reader # <<>>
    /\ output.ok
    /\ ~IsUtf8(Head(reader))
    /\ output' = Err("invalid data")
    /\ reader' = <<>>
    /\ UNCHANGED <<store, input>>

NextDirSizes == DirSizesReadLine \/ DirSizesReadError

SpecDirSizes == InitDirSizes /\ [][NextDirSizes]_vars

\* Second counts from 7_258_123 to the limit: the least, the next,
\* 9_999_999, one of the present day, the limit of the earlier version and
\* the next, the one before the limit and the limit; and the ones next
\* below and next above that range.
SecondCounts ==
    {<<7, 2, 5, 8, 1, 2, 3>>, <<7, 2, 5, 8, 1, 2, 4>>, <<9, 9, 9, 9, 9, 9, 9>>,
     <<1, 7, 0, 0, 0, 0, 0, 0, 0, 0>>, <<4, 2, 0, 0, 0, 0, 0, 0, 0, 0>>,
     <<4, 2, 0, 0, 0, 0, 0, 0, 0, 1>>, <<7, 2, 5, 8, 1, 2, 1, 9, 9, 9>>, LIMIT,
     <<7, 2, 5, 8, 1, 2, 2>>, <<7, 2, 5, 8, 1, 2, 2, 0, 0, 1>>}

\* The milliseconds within a second: 000, 001, 500 and 999.
MilliCounts == {<<0, 0, 0>>, <<0, 0, 1>>, <<5, 0, 0>>, <<9, 9, 9>>}

\* The instant of second s and millisecond k as another implementation
\* stores it: in seconds, or in milliseconds (s * 1000 + k).
Stamp(instant) ==
    IF instant.millis THEN instant.s \o instant.k ELSE instant.s

\* The line of a directory of size 1 and name x with that mtime.
StampLine(instant) ==
    Concat(<<Str(<<"1", " ">>), Decimal(Stamp(instant)), Str(<<" ", "x">>)>>)

InitPrecision ==
    /\ InitStore
    /\ input \in [s : SecondCounts, k : MilliCounts, millis : BOOLEAN]
    /\ reader = StampLine(input)
    /\ output = <<>>

\* DirSize::read_from_line(line)
ReadFromLine ==
    /\ output = <<>>
    /\ output' = <<DirSizeReadFromLine(reader)>>
    /\ UNCHANGED <<store, input, reader>>

SpecPrecision == InitPrecision /\ [][ReadFromLine]_vars

----------------------------------------------------------------------------
(* The codec of the metadata record, applied to records and to texts of
   bounded sets: a record is encoded and the text decoded; a text is
   decoded, the record encoded and that text decoded again. *)

\* The lines of a sample text: a section header or an entry.
Header(name) == [kind |-> "header", name |-> name]
Entry(key, value) == [kind |-> "entry", key |-> key, value |-> value]

RenderLine(line) ==
    IF line.kind = "header"
    THEN Concat(<<<<Ord("[")>>, line.name, <<Ord("]"), LineFeed>>>>)
    ELSE Concat(<<line.key, <<Ord("=")>>, line.value, <<LineFeed>>>>)

\* The text of the lines.
RECURSIVE Render(_)
Render(lines) ==
    IF lines = <<>> THEN <<>> ELSE RenderLine(Head(lines)) \o Render(Tail(lines))

\* Path values: the one of the tests, an encoded space, a path that is not
\* encoded, an accented letter, a stray percent sign, and a byte that is
\* no UTF-8.
PathOfTests == Str(<<"%", "2", "F", "a", "b", "c", "%", "2", "F", "d", "e", "f", "%", "2", "F", "g", "h", "i", ".", "x", "y", "z">>)
PathPlain == Str(<<"/", "a", "/", "x">>)
PathStray == Str(<<"%", "z", "z">>)
PathNoUtf8 == Str(<<"%", "2", "F", "a", "%", "F", "F">>)
PathEntries ==
    {PathOfTests, Str(<<"%", "2", "F", "a", "%", "2", "0", "b">>), PathPlain, Str(<<"%", "2", "F", "%", "C", "3", "%", "A", "9">>), PathStray, PathNoUtf8}

\* Deletion dates: the one of the tests, a leap day, a leap second in a
\* year with a sign, one with a fraction of a second, one without padding,
\* one with blanks, and dates that are none.
DateOfTests == Str(<<"2", "0", "2", "5", "-", "0", "2", "-", "1", "7", "T", "1", "3", ":", "1", "4", ":", "1", "5">>)
DateLeapDay == Str(<<"2", "0", "2", "4", "-", "0", "2", "-", "2", "9", "T", "2", "3", ":", "5", "9", ":", "5", "9">>)
DateFraction == Str(<<"2", "0", "2", "5", "-", "0", "2", "-", "1", "7", "T", "1", "3", ":", "1", "4", ":", "1", "5", ".", "5">>)
DateUnpadded == Str(<<"2", "0", "2", "5", "-", "2", "-", "7", "T", "1", ":", "2", ":", "3">>)
DateBlanks == Str(<<"2", "0", "2", "5", " ", "-", " ", "0", "2", " ", "-", " ", "1", "7", " ", "T", "1", "3", " ", ":", "1", "4", " ", ":", "1", "5">>)
DateLeapSecond == Str(<<"+", "1", "2", "3", "4", "5", "-", "0", "6", "-", "0", "7", "T", "0", "7", ":", "5", "9", ":", "6", "0">>)
GoodDates == {DateOfTests, DateLeapDay}
LenientDates == {DateFraction, DateUnpadded, DateBlanks, DateLeapSecond}
BadDates ==
    {Str(<<"2", "0", "2", "5", "-", "0", "2", "-", "3", "0", "T", "0", "0", ":", "0", "0", ":", "0", "0">>), Str(<<"2", "0", "2", "5", "-", "0", "2", "-", "1", "7", " ", "1", "3", ":", "1", "4", ":", "1", "5">>), Str(<<"2", "0", "2", "5", "-", "0", "2", "-", "1", "7", "T", "1", "3", ":", "1", "4">>),
     Str(<<"2", "0", "2", "5", "-", "0", "2", "-", "1", "7", "T", "2", "4", ":", "0", "0", ":", "0", "0">>), Str(<<"2", "0", "2", "5", "-", "0", "2", "-", "1", "7", "T", "1", "3", ":", "1", "4", ":", "1", "5", "Z">>), Str(<<"1", "7", "/", "0", "2", "/", "2", "0", "2", "5">>), <<>>}
DateEntries == GoodDates \cup LenientDates \cup BadDates

OtherSection == Str(<<"O", "t", "h", "e", "r">>)

\* Records as the encoder writes them, with every path and every date.
PlainTexts ==
    {<<Header(SECTION_TRASH_INFO), Entry(ENTRY_PATH, p), Entry(ENTRY_DELETION_DATE, d)>> :
        p \in PathEntries, d \in DateEntries}

\* Records that lack the section or an entry.
LackingTexts ==
    {<<>>,
     <<Header(SECTION_TRASH_INFO)>>,
     <<Entry(ENTRY_PATH, PathOfTests), Entry(ENTRY_DELETION_DATE, DateOfTests)>>,
     <<Header(OtherSection), Entry(ENTRY_PATH, PathOfTests),
       Entry(ENTRY_DELETION_DATE, DateOfTests)>>,
     <<Header(Str(<<"t", "r", "a", "s", "h", " ", "i", "n", "f", "o">>)), Entry(ENTRY_PATH, PathOfTests),
       Entry(ENTRY_DELETION_DATE, DateOfTests)>>,
     <<Header(SECTION_TRASH_INFO), Entry(ENTRY_PATH, PathOfTests)>>,
     <<Header(SECTION_TRASH_INFO), Entry(ENTRY_DELETION_DATE, DateOfTests)>>,
     <<Header(SECTION_TRASH_INFO), Entry(Str(<<"p", "a", "t", "h">>), PathOfTests),
       Entry(ENTRY_DELETION_DATE, DateOfTests)>>,
     <<Header(SECTION_TRASH_INFO), Entry(ENTRY_PATH, PathOfTests),
       Entry(Str(<<"D", "e", "l", "e", "t", "i", "o", "n", "d", "a", "t", "e">>), DateOfTests)>>,
     <<Header(SECTION_TRASH_INFO), Entry(ENTRY_PATH, PathOfTests),
       Header(OtherSection), Entry(ENTRY_DELETION_DATE, DateOfTests)>>}

\* Records that have an entry twice: one after the other, in turns, with
\* the dates first, and in a second section of the name.
TwicePaths == {PathOfTests, PathPlain, PathNoUtf8}
TwiceDates == {DateOfTests, DateLeapDay, Str(<<"1", "7", "/", "0", "2", "/", "2", "0", "2", "5">>)}
\* The pairs of two different elements of a set.
TwoOf(S) == {pair \in S \X S : pair[1] # pair[2]}

TwiceTexts ==
    UNION {{<<Header(SECTION_TRASH_INFO), Entry(ENTRY_PATH, p[1]), Entry(ENTRY_PATH, p[2]),
              Entry(ENTRY_DELETION_DATE, d[1]), Entry(ENTRY_DELETION_DATE, d[2])>>,
            <<Header(SECTION_TRASH_INFO), Entry(ENTRY_PATH, p[1]),
              Entry(ENTRY_DELETION_DATE, d[1]), Entry(ENTRY_PATH, p[2]),
              Entry(ENTRY_DELETION_DATE, d[2])>>,
            <<Header(SECTION_TRASH_INFO), Entry(ENTRY_DELETION_DATE, d[1]),
              Entry(ENTRY_DELETION_DATE, d[2]), Entry(ENTRY_PATH, p[1])>>,
            <<Header(SECTION_TRASH_INFO), Entry(ENTRY_PATH, p[1]),
              Entry(ENTRY_DELETION_DATE, d[1]), Header(SECTION_TRASH_INFO),
              Entry(ENTRY_PATH, p[2]), Entry(ENTRY_DELETION_DATE, d[2])>>} :
           p \in TwoOf(TwicePaths), d \in TwoOf(TwiceDates)}

SampleTexts == PlainTexts \cup LackingTexts \cup TwiceTexts

\* Paths of records: plain, with a blank and an accented letter, with a
\* percent sign, with a line feed and an equals sign, and the empty one.
SamplePaths ==
    {Str(<<"/", "a", "b", "c", "/", "d", "e", "f", "/", "g", "h", "i", ".", "x", "y", "z">>), Str(<<"/", "a", " ", "b", "/">>) \o <<195, 169>>, Str(<<"/", "5", "0", "%", "/", "%", "4", "1">>),
     Str(<<"/", "a">>) \o <<LineFeed>> \o Str(<<"b", "=", "c", " ", "[", "d", "]">>), <<>>}

\* Deletion times of records: of whole seconds (among them a leap second
\* and years of less and of more than four digits) and with a fraction.
SampleTimes ==
    {NaiveDateTime(2025, 2, 17, 13, 14, 15, 0),
     NaiveDateTime(2024, 2, 29, 23, 59, 59, 0),
     NaiveDateTime(1, 1, 1, 0, 0, 0, 0),
     NaiveDateTime(12345, 6, 7, 7, 59, 59, 1000000000),
     NaiveDateTime(0 - 44, 3, 15, 12, 0, 0, 0),
     NaiveDateTime(2025, 2, 17, 13, 14, 15, 500000000)}

SampleRecords == {TrashInfo(p, t) : p \in SamplePaths, t \in SampleTimes}

\* What the codec is applied to, and what it yields: a text or the result
\* of a decoding.
TextStage(text) == [kind |-> "text", text |-> text]
ResultStage(result) == [kind |-> "result", result |-> result]

InitCodec ==
    /\ InitStore
    /\ \/ \E lines \in SampleTexts :
            /\ input = [kind |-> "text", lines |-> lines]
            /\ reader = TextStage(Render(lines))
       \/ \E record \in SampleRecords :
            /\ input = [kind |-> "record", record |-> record]
            /\ reader = ResultStage(Ok(record))
    /\ output = <<>>

\* The stage the codec is applied to next.
LastStage == IF output = <<>> THEN reader ELSE output[Len(output)]

\* TrashInfo::read_from of the last text
Decode ==
    /\ Len(output) < MaxSteps
    /\ LastStage.kind = "text"
    /\ output' = Append(output, ResultStage(TrashInfoReadFrom(LastStage.text)))
    /\ UNCHANGED <<store, input, reader>>

\* TrashInfo::write_to of the last record
Encode ==
    /\ Len(output) < MaxSteps
    /\ LastStage.kind = "result"
    /\ LastStage.result.ok
    /\ output' = Append(output, TextStage(TrashInfoWriteTo(LastStage.result.value)))
    /\ UNCHANGED <<store, input, reader>>

NextCodec == Decode \/ Encode

SpecCodec == InitCodec /\ [][NextCodec]_vars

----------------------------------------------------------------------------
(* The loop of open_new_trashinfo_file with the counter at its width, over
   info directories in which all records of a base identifier exist but
   those of a few numbers *)

\* The values of a u16.
U16 == 65536

\* The numbers whose record may be missing: the first, the second and the
\* last the counter can hold.
SampleNumbers == {0, 1, U16 - 1}

\* The info directory by the numbers without record, and the build: with
\* overflow checks (the dev profile) or without (the release profile).
InitAlloc ==
    /\ InitStore
    /\ input \in [missing : SUBSET SampleNumbers, overflow_checks : BOOLEAN]
    /\ reader = 0
    /\ output = <<>>

\* number += 1 on a u16: a build with overflow checks panics with "attempt
\* to add with overflow", a build without wraps around.
AddOne(number, overflow_checks) ==
    IF number + 1 < U16 THEN Ok(number + 1)
    ELSE IF overflow_checks THEN Err("panic")
    ELSE Ok((number + 1) % U16)

\* create_new of the record of the candidate succeeds: break Ok(..)
AllocCreate ==
    /\ output = <<>>
    /\ reader \in input.missing
    /\ output' = <<Ok(reader)>>
    /\ UNCHANGED <<store, input, reader>>

\* ErrorKind::AlreadyExists: number += 1; continue
AllocAlreadyExists ==
    /\ output = <<>>
    /\ reader \notin input.missing
    /\ LET number == AddOne(reader, input.overflow_checks) IN
       IF number.ok
       THEN reader' = number.value /\ UNCHANGED output
       ELSE output' = <<number>> /\ UNCHANGED reader
    /\ UNCHANGED <<store, input>>

NextAlloc == AllocCreate \/ AllocAlreadyExists

\* The loop runs on until it breaks or panics.
SpecAlloc == InitAlloc /\ [][NextAlloc]_vars /\ WF_vars(NextAlloc)

----------------------------------------------------------------------------
(* Properties *)

PutPcs == {"put_create_dirs", "put_open", "put_write", "put_rename"}
RestorePcs == {"restore_check_original", "restore_check_file", "restore_rename",
               "restore_remove"}

\* p has allocated an identifier in the put it is running.
Holds(p) == pc[p] \in {"put_write", "put_rename"}

PutOk(p) == Idle(p) /\ ret[p].op = "put" /\ ret[p].status = "ok"

\* The identifier p has obtained: in its running put, or in its last put.
Obtained(p) ==
    IF Holds(p) THEN {loc[p].identifier}
    ELSE IF PutOk(p) THEN {ret[p].identifier}
    ELSE {}

RecordIds == {i \in Ids : info[i].kind # "none"}
PayloadIds == {i \in Ids : files[i].kind # "none"}

\* C1 (under SpecPut): two processes that put concurrently never obtain the
\* same identifier, and the record file of the identifier a put holds was
\* created by that put and by no other.
C1_DistinctIdentifiers ==
    \A p \in Procs :
        /\ \A q \in Procs \ {p} : Obtained(p) \cap Obtained(q) = {}
        /\ Holds(p) => /\ info[loc[p].identifier].kind # "none"
                       /\ info[loc[p].identifier].by = p

\* Both processes hold an identifier for different paths of the same name.
C1_Witness ==
    /\ pc[1] = "put_rename"
    /\ pc[2] = "put_rename"
    /\ loc[1].path # loc[2].path
    /\ Identifier(loc[1].path) = Identifier(loc[2].path)

\* C2, as claimed: a restore of a readable record whose original path holds
\* a filesystem entry fails, and the record, the payload and that entry are
\* as they were before the call.
C2_RestoreRefusesOccupied ==
    \A p \in Procs :
        (/\ Idle(p)
         /\ ret[p].op = "restore"
         /\ pre[p].info[ret[p].identifier].kind = "trashinfo"
         /\ pre[p].fs[pre[p].info[ret[p].identifier].path].kind # "none")
        => LET original_path == pre[p].info[ret[p].identifier].path IN
           /\ ret[p].status # "ok"
           /\ info = pre[p].info
           /\ files = pre[p].files
           /\ fs[original_path] = pre[p].fs[original_path]

\* C3, as claimed: when no call is running and none was interrupted, the
\* identifiers with a record are the identifiers with a payload.
C3_RecordsMatchPayloads ==
    (AllIdle /\ ~crashed) => RecordIds = PayloadIds

C5_RecordOrOriginal ==
    \A p \in Procs :
        /\ pc[p] \in RestorePcs
           => \/ info[loc[p].identifier].kind # "none"
              \/ fs[loc[p].path] = pre[p].files[loc[p].identifier]
        /\ (Idle(p) /\ ret[p].op = "restore" /\ ret[p].status = "ok")
           => fs[ret[p].path] = pre[p].files[ret[p].identifier]

\* The payload is back at the original path and the record is not removed yet.
C5_Witness ==
    /\ pc[1] = "restore_remove"
    /\ info[loc[1].identifier].kind = "trashinfo"
    /\ files[loc[1].identifier].kind = "none"
    /\ fs[loc[1].path].kind # "none"

\* C6: a put of a path that does not exist returns the not-found error and
\* the base, info and files directories, the records and the payloads are
\* as they were before the call.
C6_PutNotFoundTouchesNothing ==
    \A p \in Procs :
        (Idle(p) /\ ret[p].op = "put" /\ ~Exists(pre[p].fs, ret[p].arg))
        => /\ ret[p].status = "not found"
           /\ dirs = pre[p].dirs
           /\ info = pre[p].info
           /\ files = pre[p].files

\* A put has failed on a trash that was never used.
C6_Witness ==
    /\ Idle(1)
    /\ ret[1].op = "put"
    /\ ret[1].status = "not found"
    /\ dirs = {}

\* C7, as claimed: after a put that failed at the record creation or at the
\* rename, the records and payloads are as before the call and the source
\* is still at its path.
C7_FailedPutLeavesNothing ==
    \A p \in Procs :
        (Idle(p) /\ ret[p].op = "put" /\ ret[p].status \notin {"ok", "not found"})
        => /\ info = pre[p].info
           /\ files = pre[p].files
           /\ fs[ret[p].path] = pre[p].fs[ret[p].path]

\* C8: after a successful put of a regular file, entries() yields what it
\* yielded before the call and one entry more, with the canonical path of
\* the argument and the byte length of the file (on an empty store, that
\* entry alone).
C8_PutAddsOneEntry ==
    \A p \in Procs :
        (PutOk(p) /\ pre[p].fs[ret[p].path].kind = "file")
        => LET before == Listing(cache[p], pre[p], others)
               entry == [identifier |-> ret[p].identifier, ok |-> TRUE,
                         original_path |-> Canonicalize(pre[p].fs, ret[p].arg),
                         deletion_time |-> ret[p].deletion_time,
                         nanos |-> 0,
                         size |-> pre[p].fs[ret[p].path].size]
           IN /\ entry \notin before
              /\ \A e \in before : e.identifier # entry.identifier
              /\ Listing(cache[p], Snapshot, others) = before \cup {entry}

\* A regular file was put through a symbolic link.
C8_Witness ==
    /\ PutOk(1)
    /\ ret[1].arg # ret[1].path
    /\ pre[1].fs[ret[1].path].kind = "file"
    /\ Listing(cache[1], Snapshot, others) # {}

\* The first number whose candidate has no record.
FirstFree(inf, base_identifier) ==
    CHOOSE n \in 0..MaxSuffix :
        /\ inf[Candidate(base_identifier, n)].kind = "none"
        /\ \A k \in 0..MaxSuffix :
             k < n => inf[Candidate(base_identifier, k)].kind # "none"

\* C9: the identifier a put allocates is the first of base, base_1, base_2,
\* ... that had no record file when the put was called.
C9_FirstFreeCandidate ==
    \A p \in Procs :
        /\ Holds(p)
           => loc[p].identifier =
                 Candidate(Identifier(loc[p].path),
                           FirstFree(pre[p].info, Identifier(loc[p].path)))
        /\ PutOk(p)
           => ret[p].identifier =
                 Candidate(Identifier(ret[p].path),
                           FirstFree(pre[p].info, Identifier(ret[p].path)))

\* After x and x_1 were allocated and x was restored, a put got x again
\* while x_1 is still trashed.
C9_Witness ==
    /\ PutOk(1)
    /\ ret[1].identifier = "x"
    /\ info["x_1"].kind = "trashinfo"
    /\ files["x_1"].kind # "none"
    /\ info["x_1"].path.name = "x"

\* C10: no step of entries() changes the disk, and when the info directory
\* is absent or holds no record entries() yields no entry and no error.
C10_EntriesReadOnly ==
    [][\A p \in Procs :
         (pc[p] = "entries_collect" \/ pc'[p] = "entries_collect")
         => /\ disk' = disk
            /\ (/\ pc'[p] = "idle"
                /\ ret'[p].op = "entries"
                /\ ("info" \notin dirs \/ RecordIds = {}))
               => (ret'[p].status = "ok" /\ ret'[p].entries = {})]_vars

\* An absent trash was listed.
C10_Witness ==
    /\ Idle(1)
    /\ ret[1].op = "entries"
    /\ ret[1].entries = {}
    /\ dirs = {}

Expected(line) ==
    IF line = LineSeconds
    THEN {DirSize(Str(<<"x">>), <<1>>, <<1, 7, 0, 0, 0, 0, 0, 0, 0, 0>>)}
    ELSE IF line = LineAgain
    THEN {DirSize(Str(<<"x">>), <<2>>, <<1, 7, 0, 0, 0, 0, 0, 0, 0, 1>>)}
    ELSE IF line = LineMillis
    THEN {DirSize(Str(<<"x", "_", "1">>), <<2>>, <<1, 7, 0, 0, 0, 0, 0, 0, 0, 0>>)}
    ELSE IF line = LineTabs
    THEN {DirSize(Str(<<"x", "_", "1">>), <<1>>, <<1, 7, 0, 0, 0, 0, 0, 0, 0, 0>>)}
    ELSE IF line = LineSign
    THEN {DirSize(Str(<<"%", "z", "z">>), <<2>>, <<7>>)}
    ELSE {}

\* The entry of the last well-formed line of each name.
RECURSIVE ExpectedOf(_)
ExpectedOf(lines) ==
    IF lines = <<>> THEN {}
    ELSE LET last == Expected(lines[Len(lines)])
             before == ExpectedOf(SubSeq(lines, 1, Len(lines) - 1))
         IN last \cup {e \in before : \A l \in last : l.name # e.name}

\* C15 (under SpecDirSizes): when a file whose lines are all text has been
\* read, the mapping holds exactly the entries of its well-formed lines (the
\* last one of each name), whatever lines with a missing or invalid size,
\* mtime or name stand between them, and whatever follows the third field.
C15_InvalidLinesSkipped ==
    (reader = <<>> /\ \A i \in DOMAIN input : input[i] \notin NoTextLines)
    => /\ output.ok
       /\ {output.value[n] : n \in DOMAIN output.value} = ExpectedOf(input)
       /\ \A n \in DOMAIN output.value : output.value[n].name = n

\* A well-formed line was read after an invalid one.
C15_Witness ==
    /\ Len(input) = 2
    /\ input[1] \in BadLines
    /\ input[2] = LineTabs
    /\ reader = <<>>
    /\ DOMAIN output.value = {Str(<<"x", "_", "1">>)}

\* C11 (under SpecList): entries() yields one result for every regular file
\* of the info directory with the extension trashinfo and none for anything
\* else; the result is an error exactly for the records that are empty,
\* may not be read or have no payload, and an entry for every other record.
C11_OneResultPerRecord ==
    \A p \in Procs :
        (Idle(p) /\ ret[p].op = "entries")
        => LET records == {i \in Ids : pre[p].info[i].kind \in {"empty", "trashinfo", "locked"}}
               good == {i \in Ids : /\ pre[p].info[i].kind = "trashinfo"
                                    /\ pre[p].files[i].kind # "none"}
           IN /\ ret[p].status = "ok"
              /\ {e.identifier : e \in ret[p].entries} = records
              /\ Cardinality(ret[p].entries) = Cardinality(records)
              /\ \A e \in ret[p].entries :
                   /\ e.ok <=> e.identifier \in good
                   /\ e.ok => e.original_path = pre[p].info[e.identifier].path

\* A listing of a good record, a bad record and a directory named like one.
C11_Witness ==
    /\ Idle(1)
    /\ ret[1].op = "entries"
    /\ \E e \in ret[1].entries : e.ok
    /\ \E e \in ret[1].entries : ~e.ok
    /\ \E i \in Ids : pre[1].info[i].kind = "dir"

\* A step of a restore call of p.
RestoreStep(p) ==
    \/ \E identifier \in Ids : RestoreRead(p, identifier)
    \/ RestoreCheckOriginal(p)
    \/ RestoreCheckFile(p)
    \/ RestoreRename(p)
    \/ RestoreRemove(p)

\* The record of the identifier is missing, unreadable or malformed, or no
\* payload of that name is in the files directory.
NothingToRestore(snapshot, identifier) ==
    \/ snapshot.info[identifier].kind # "trashinfo"
    \/ snapshot.files[identifier].kind = "none"

\* C20 (under SpecList): a restore called for an identifier whose record is
\* missing, unreadable or malformed, or whose payload is missing, changes
\* nothing on the disk at any of its steps and ends with an error.
C20_RestoreFailsCleanly ==
    [][\A p \in Procs :
          RestoreStep(p)
          => LET identifier == IF pc'[p] = "idle" THEN ret'[p].identifier
                               ELSE loc'[p].identifier
             IN NothingToRestore(pre'[p], identifier)
                => /\ Snapshot' = pre'[p]
                   /\ pc'[p] = "idle" => ret'[p].status \notin {"ok", "none"}]_vars

\* A restore was refused for want of a payload, the valid record is still
\* in place.
C20_Witness ==
    /\ Idle(1)
    /\ ret[1].op = "restore"
    /\ ret[1].status = "not found"
    /\ pre[1].info[ret[1].identifier].kind = "trashinfo"
    /\ pre[1].files[ret[1].identifier].kind = "none"
    /\ Snapshot = pre[1]

\* The entry of the size cache of a Trash value that is valid for the
\* identifier on the disk: it bears the name of the identifier and the
\* second of the last modification of the record file.
ValidDirSize(cell, snapshot, identifier) ==
    /\ IdBytes(identifier) \in DOMAIN cell.map
    /\ cell.map[IdBytes(identifier)].mtime = Seconds(snapshot.mtime[identifier])

\* C12 (under SpecSizes): in every finished listing the size of an entry
\* whose payload is a directory is the cached size when the size cache of
\* the Trash value holds an entry of that identifier whose mtime is the
\* second of the last modification of the record file, and 0 otherwise.
C12_DirectorySize ==
    \A p \in Procs :
        (Idle(p) /\ ret[p].op = "entries")
        => \A e \in ret[p].entries :
              (e.ok /\ pre[p].files[e.identifier].kind = "dir")
              => /\ cache[p].set
                 /\ ValidDirSize(cache[p], pre[p], e.identifier)
                    => e.size = Value(cache[p].map[IdBytes(e.identifier)].size)
                 /\ ~ValidDirSize(cache[p], pre[p], e.identifier) => e.size = 0

\* A listing reports 0 for the directory x: the size cache has an entry of
\* that name, written for the record of an earlier put of x.
C12_Witness ==
    /\ Idle(1)
    /\ ret[1].op = "entries"
    /\ \E e \in ret[1].entries : e.ok /\ e.identifier = "x" /\ e.size = 0
    /\ pre[1].files["x"].kind = "dir"
    /\ IdBytes("x") \in DOMAIN cache[1].map

\* A step of a call of the engine that lists, puts or restores.
EngineStep(p) == Entries(p) \/ Put(p) \/ Restore(p)

\* C13 (under SpecSizes): the size cache of a Trash value is loaded at most
\* once, by the first listing that meets a directory payload, and is not
\* changed afterwards; a listing of a Trash value whose size cache is loaded
\* yields what that cache gives, whatever the directorysizes file holds by
\* then; and no step of entries, put or restore changes the file.
C13_LoadedOnce ==
    [][\A p \in Procs :
          /\ cache[p].set => cache'[p] = cache[p]
          /\ cache'[p] # cache[p]
             => /\ EntriesCollect(p)
                /\ \E i \in Ids : LooksUp(info, files, i)
                /\ cache'[p] = Loaded(UnwrapOrDefault(LoadDirSizes(dsfile, dslines)))
          /\ (EntriesCollect(p) /\ cache[p].set)
             => ret'[p].entries
                   = EntriesOf(dirs, info, files, mtime, others, cache[p].map)
          /\ EngineStep(p) => UNCHANGED <<dsfile, dslines>>]_vars

\* A listing called when the directorysizes file was gone reports the size
\* that the file gave when the Trash value loaded it.
C13_Witness ==
    /\ Idle(1)
    /\ ret[1].op = "entries"
    /\ ~pre[1].dsfile
    /\ \E e \in ret[1].entries :
          e.ok /\ pre[1].files[e.identifier].kind = "dir" /\ e.size > 0

\* C14 (under SpecSizes): a listing by a Trash value that has not loaded
\* the size cache, called when the directorysizes file is absent, ends
\* without error, yields an entry for every valid record with a payload,
\* reports the size 0 for every directory payload, and leaves the Trash
\* value with an empty size cache.
C14_MissingFileIsEmptyCache ==
    [][\A p \in Procs :
          (EntriesCollect(p) /\ ~cache[p].set /\ ~dsfile)
          => /\ ret'[p].op = "entries"
             /\ ret'[p].status = "ok"
             /\ \A i \in Ids :
                   (info[i].kind = "trashinfo" /\ files[i].kind # "none")
                   => \E e \in ret'[p].entries : e.identifier = i /\ e.ok
             /\ \A e \in ret'[p].entries :
                   (e.ok /\ files[e.identifier].kind = "dir") => e.size = 0
             /\ cache'[p].set => cache'[p].map = NoDirSizes]_vars

\* The first call of all is a listing; it met the directory x and no
\* directorysizes file.
C14_Witness ==
    /\ ops = 1
    /\ Idle(1)
    /\ ret[1].op = "entries"
    /\ ret[1].status = "ok"
    /\ ~dsfile
    /\ cache[1] = Loaded(NoDirSizes)
    /\ \E e \in ret[1].entries : e.ok /\ e.identifier = "x" /\ e.size = 0

\* The entries of the sample lines that stand in a section of the name, in
\* the order of the text.
RECURSIVE EntriesIn(_, _, _)
EntriesIn(lines, name, inside) ==
    IF lines = <<>> THEN <<>>
    ELSE IF Head(lines).kind = "header"
    THEN EntriesIn(Tail(lines), name, Head(lines).name = name)
    ELSE (IF inside THEN <<Head(lines)>> ELSE <<>>)
         \o EntriesIn(Tail(lines), name, inside)

\* The entries of the first section of the name.
RECURSIVE EntriesOfFirst(_, _, _)
EntriesOfFirst(lines, name, inside) ==
    IF lines = <<>> THEN <<>>
    ELSE IF Head(lines).kind = "header"
    THEN IF inside THEN <<>>
         ELSE EntriesOfFirst(Tail(lines), name, Head(lines).name = name)
    ELSE (IF inside THEN <<Head(lines)>> ELSE <<>>)
         \o EntriesOfFirst(Tail(lines), name, inside)

HasSection(lines, name) == \E i \in DOMAIN lines : lines[i] = Header(name)

Occurrences(entries, key) == {i \in DOMAIN entries : entries[i].key = key}

\* The value of the first of the entries with the key.
FirstValue(entries, key) ==
    entries[CHOOSE i \in Occurrences(entries, key) :
                \A j \in Occurrences(entries, key) : i <= j].value

\* A text of the form YYYY-MM-DDTHH:MM:SS.
IsTimestamp(s) ==
    /\ Len(s) = 19
    /\ \A i \in {1, 2, 3, 4, 6, 7, 9, 10, 12, 13, 15, 16, 18, 19} : IsDigit(s[i])
    /\ s[5] = Ord("-") /\ s[8] = Ord("-")
    /\ s[11] = Ord("T")
    /\ s[14] = Ord(":") /\ s[17] = Ord(":")

WholeSecond(t) == t.nanosecond % 1000000000 = 0

\* C17: a record of whole seconds that is encoded and decoded is the record
\* again, and so is every record that a decoding yielded.
C17_RoundTrip ==
    /\ (/\ input.kind = "record"
        /\ WholeSecond(input.record.deletion_time)
        /\ Len(output) >= 2)
       => output[2] = ResultStage(Ok(input.record))
    /\ \A k \in DOMAIN output :
          (/\ output[k].kind = "result"
           /\ output[k].result.ok
           /\ k + 2 \in DOMAIN output)
          => output[k + 2] = output[k]

\* C18: the decoding of a text is an error when the text has no section
\* Trash Info, when the section has no Path or no DeletionDate, when the
\* path cannot be percent-decoded, or when the deletion date is not of the
\* form YYYY-MM-DDTHH:MM:SS.
C18_MalformedIsError ==
    (input.kind = "text" /\ output # <<>>)
    => LET entries == EntriesOfFirst(input.lines, SECTION_TRASH_INFO, FALSE)
           malformed ==
               \/ ~HasSection(input.lines, SECTION_TRASH_INFO)
               \/ Occurrences(entries, ENTRY_PATH) = {}
               \/ Occurrences(entries, ENTRY_DELETION_DATE) = {}
               \/ ~UrlDecode(FirstValue(entries, ENTRY_PATH)).ok
               \/ ~IsTimestamp(FirstValue(entries, ENTRY_DELETION_DATE))
       IN malformed => ~output[1].result.ok

\* C19: when the sections Trash Info of a text have Path or DeletionDate
\* more than once, the decoding is what the first Path and the first
\* DeletionDate give: their record, or an error when one of them is invalid.
C19_FirstOccurrenceGoverns ==
    (input.kind = "text" /\ output # <<>>)
    => LET entries == EntriesIn(input.lines, SECTION_TRASH_INFO, FALSE)
           twice == \/ Cardinality(Occurrences(entries, ENTRY_PATH)) > 1
                    \/ Cardinality(Occurrences(entries, ENTRY_DELETION_DATE)) > 1
           path == UrlDecode(FirstValue(entries, ENTRY_PATH))
           deletion_date == ParseNaiveDateTime(FirstValue(entries, ENTRY_DELETION_DATE))
       IN (/\ twice
           /\ Occurrences(entries, ENTRY_PATH) # {}
           /\ Occurrences(entries, ENTRY_DELETION_DATE) # {})
          => /\ output[1].result.ok <=> (path.ok /\ deletion_date.ok)
             /\ output[1].result.ok
                => output[1].result.value = TrashInfo(path.value, deletion_date.value)

\* A text with the paths /a/x and /abc/def/ghi.xyz and the dates of
\* 2024-02-29 and 2025-02-17, in this order, was decoded to the record of
\* /a/x and 2024-02-29.
C19_Witness ==
    /\ input.kind = "text"
    /\ input.lines = <<Header(SECTION_TRASH_INFO),
                       Entry(ENTRY_PATH, PathPlain),
                       Entry(ENTRY_DELETION_DATE, DateLeapDay),
                       Entry(ENTRY_PATH, PathOfTests),
                       Entry(ENTRY_DELETION_DATE, DateOfTests)>>
    /\ output # <<>>
    /\ output[1] = ResultStage(Ok(TrashInfo(PathPlain,
                                           NaiveDateTime(2024, 2, 29, 23, 59, 59, 0))))

\* A restore call of p returns its report.
RestoreSucceeds(p) ==
    /\ RestoreStep(p)
    /\ pc'[p] = "idle"
    /\ ret'[p].status = "ok"

\* C21 (under SpecLife): when a restore returns its report, the payload the
\* files directory held under the identifier is at the original path of the
\* record, the store has neither payload nor record of the identifier, and
\* the report carries the original path and the deletion time of the record.
C21_RestoreReturnsItem ==
    [][\A p \in Procs :
          RestoreSucceeds(p)
          => LET identifier == ret'[p].identifier
                 record == pre'[p].info[identifier]
             IN /\ record.kind = "trashinfo"
                /\ fs'[record.path] = pre'[p].files[identifier]
                /\ fs'[record.path].kind # "none"
                /\ files'[identifier] = NoEnt
                /\ info'[identifier] = NoRec
                /\ ret'[p].path = record.path
                /\ ret'[p].deletion_time = record.deletion_time]_vars

\* A file trashed in second 1 was restored to its path, and the report names
\* second 1.
C21_Witness ==
    /\ Idle(1)
    /\ ret[1].op = "restore"
    /\ ret[1].status = "ok"
    /\ ret[1].deletion_time = 1
    /\ pre[1].info[ret[1].identifier].deletion_time = 1
    /\ fs[ret[1].path] = pre[1].files[ret[1].identifier]
    /\ fs[ret[1].path].kind = "file"
    /\ files[ret[1].identifier] = NoEnt
    /\ info[ret[1].identifier] = NoRec

\* A step of an empty call of p.
EmptyStep(p) ==
    \/ EmptyStart(p)
    \/ EmptyRemoveTrashinfo(p)
    \/ EmptyReadFilesDir(p)
    \/ EmptyRemoveFile(p)
    \/ EmptyRemoveDirSizes(p)

\* An empty call of p returns its report.
EmptySucceeds(p) ==
    /\ EmptyStep(p)
    /\ pc'[p] = "idle"
    /\ ret'[p].status = "ok"

\* C22 (under SpecEmpty): when empty returns its report, the info directory holds
\* no regular file named *.trashinfo, the files directory holds no entry of
\* any kind, and the directorysizes file does not exist.
C22_EmptyLeavesNothing ==
    [][\A p \in Procs :
          EmptySucceeds(p)
          => /\ \A identifier \in Ids : ~IsFile(info'[identifier])
             /\ \A identifier \in Ids : files'[identifier].kind = "none"
             /\ ~dsfile']_vars

\* An empty call returned its report after it had removed a record, a
\* directory payload and the directorysizes file.
C22_Witness ==
    /\ Idle(1)
    /\ ret[1].op = "empty"
    /\ ret[1].status = "ok"
    /\ ret[1].entry_count > 0
    /\ pre[1].dsfile
    /\ \E identifier \in Ids :
         /\ pre[1].info[identifier].kind = "trashinfo"
         /\ pre[1].files[identifier].kind = "dir"
    /\ \A identifier \in Ids :
         ~IsFile(info[identifier]) /\ files[identifier].kind = "none"
    /\ ~dsfile

\* An empty call of p returns an error.
EmptyFails(p) ==
    /\ EmptyStep(p)
    /\ pc'[p] = "idle"
    /\ ret'[p].status # "ok"

\* C23 (under SpecEmpty): the step on which empty returns an error changes
\* nothing on the disk; by then every record and payload is either as it was
\* at the call or removed, the count of removed payloads is the number of
\* payloads gone, and the user's files are untouched.  When the error is
\* that of removing a payload, all records are gone and that payload remains.
C23_EmptyStopsAtFirstError ==
    [][\A p \in Procs :
          EmptyFails(p)
          => /\ Snapshot' = Snapshot
             /\ \A identifier \in Ids :
                  /\ info'[identifier] \in {pre'[p].info[identifier], NoRec}
                  /\ files'[identifier] \in {pre'[p].files[identifier], NoEnt}
             /\ ret'[p].entry_count =
                  Cardinality({identifier \in Ids :
                                  files'[identifier] # pre'[p].files[identifier]})
             /\ fs' = pre'[p].fs
             /\ dsfile' = pre'[p].dsfile
             /\ ret'[p].status = "cannot remove file"
                => /\ \A identifier \in Ids : ~IsFile(info'[identifier])
                   /\ \E identifier \in Ids :
                        RemoveDirAllResult(files'[identifier]) = "ENOTDIR"]_vars

\* An empty call failed at a payload after it had removed the records and a
\* directory payload: a payload without record remains.
C23_Witness ==
    /\ Idle(1)
    /\ ret[1].op = "empty"
    /\ ret[1].status = "cannot remove file"
    /\ ret[1].entry_count = 1
    /\ \E identifier \in Ids :
         /\ pre[1].info[identifier].kind = "trashinfo"
         /\ info[identifier] = NoRec
         /\ files[identifier] = pre[1].files[identifier]
         /\ files[identifier].kind = "file"
    /\ \E identifier \in Ids :
         /\ pre[1].files[identifier].kind = "dir"
         /\ files[identifier] = NoEnt

\* The state of the item of an identifier in a snapshot of the disk: Trashed
\* with its record and its payload in the store, Out of the store (live at
\* its original place, or purged) with neither, and no state of the state
\* machine with one of the two only.
ItemState(snapshot, identifier) ==
    LET record == snapshot.info[identifier].kind # "none"
        payload == snapshot.files[identifier].kind # "none"
    IN IF record /\ payload THEN "Trashed"
       ELSE IF ~record /\ ~payload THEN "Out"
       ELSE "Partial"

\* The step on which a call of p returns, to its caller or with an error.
CallReturns(p) ==
    /\ Put(p) \/ Restore(p) \/ Empty(p)
    /\ pc'[p] = "idle"

\* C24 (under SpecLife): over a call, from the disk at its start to the disk
\* at its return, the item of every identifier keeps its state, except that
\* a successful put takes the item of the identifier it returns from Out
\* (live) to Trashed, a successful restore takes the item of its identifier
\* from Trashed to Out, with the payload back at the original path (live),
\* and a successful empty takes every item from Trashed to Out; no empty
\* brings anything back to the user's files (purged for good).  A failed put
\* and a failed restore leave every item in its state.
C24_ItemTransitions ==
    [][\A p \in Procs :
          CallReturns(p)
          => LET before == pre'[p]
                 after == Snapshot'
                 done == ret'[p]
                 Same(i) == ItemState(after, i) = ItemState(before, i)
                 Moves(i, from, to) ==
                     ItemState(before, i) = from /\ ItemState(after, i) = to
             IN /\ (done.op \in {"put", "restore"} /\ done.status # "ok")
                   => \A i \in Ids : Same(i)
                /\ (done.op = "put" /\ done.status = "ok")
                   => /\ Moves(done.identifier, "Out", "Trashed")
                      /\ \A i \in Ids \ {done.identifier} : Same(i)
                /\ (done.op = "restore" /\ done.status = "ok")
                   => /\ Moves(done.identifier, "Trashed", "Out")
                      /\ after.fs[done.path] = before.files[done.identifier]
                      /\ \A i \in Ids \ {done.identifier} : Same(i)
                /\ (done.op = "empty" /\ done.status = "ok")
                   => \A i \in Ids : ItemState(after, i) = "Out"
                /\ done.op = "empty" => after.fs = before.fs]_vars

\* The restore command of p without paths returns.
AppRestoreReturns(p) ==
    /\ AppRestore(p)
    /\ pc'[p] = "idle"

\* The entries that load without error on the disk of a snapshot.
LoadedEntries(snapshot) == OkEntries(Listing(Unset, snapshot, others))

\* No other entry was trashed later.
MostRecent(entry, entries) ==
    \A other \in entries : other.deletion_time <= entry.deletion_time

\* The entry is back at its original path, and out of the store.
Restored(before, after, entry) ==
    /\ after.info[entry.identifier] = NoRec
    /\ after.files[entry.identifier] = NoEnt
    /\ after.fs[entry.original_path] = before.files[entry.identifier]

\* The record and the payload of the identifier are as they were.
Untouched(before, after, identifier) ==
    /\ after.info[identifier] = before.info[identifier]
    /\ after.files[identifier] = before.files[identifier]

\* The user declined the prompt of the restore command.
Declined(done) == done.op = "restore command" /\ done.status = "ok"

\* C25 as claimed (under SpecApp): the restore command without paths fails
\* with "empty trash" when no entry loads without error, and otherwise,
\* unless the user declined, has restored one of the most recent such
\* entries and touched no other when it returns.
C25_RestoresMostRecent ==
    [][\A p \in Procs :
          AppRestoreReturns(p)
          => LET entries == LoadedEntries(pre'[p]) IN
             IF entries = {}
             THEN AppRestoreResult(ret'[p]) = "empty trash"
             ELSE Declined(ret'[p]) \/ \E entry \in entries :
                    /\ MostRecent(entry, entries)
                    /\ Restored(pre'[p], Snapshot', entry)
                    /\ \A i \in Ids \ {entry.identifier} :
                         Untouched(pre'[p], Snapshot', i)]_vars

\* C25 as amended (under SpecApp): the restore command without paths fails
\* with "empty trash", the disk unchanged, when no entry loads without
\* error.  Otherwise it selects one of the most recent such entries and
\* touches no other; unless the prompt is declined it calls the restore of
\* the engine for the selected entry, which is restored when that call
\* succeeds, and the command fails with "1 not restored" when it does not.
C25_SelectsMostRecent ==
    [][\A p \in Procs :
          AppRestoreReturns(p)
          => LET entries == LoadedEntries(pre'[p])
                 done == ret'[p]
             IN IF entries = {}
                THEN /\ AppRestoreResult(done) = "empty trash"
                     /\ Snapshot' = pre'[p]
                ELSE \E entry \in entries :
                       /\ MostRecent(entry, entries)
                       /\ done.identifier = entry.identifier
                       /\ \A i \in Ids \ {entry.identifier} :
                            Untouched(pre'[p], Snapshot', i)
                       /\ IF Declined(done)
                          THEN Snapshot' = pre'[p]
                          ELSE IF done.status = "ok"
                          THEN /\ AppRestoreResult(done) = "ok"
                               /\ Restored(pre'[p], Snapshot', entry)
                          ELSE AppRestoreResult(done) = "1 not restored"]_vars

\* The restore command restored the entry trashed in second 1 and left the
\* entry trashed in second 0 in the store.
C25_Witness ==
    /\ Idle(1)
    /\ ret[1].op = "restore"
    /\ ret[1].status = "ok"
    /\ ret[1].deletion_time = 1
    /\ \E entry \in LoadedEntries(pre[1]) :
         /\ entry.identifier = ret[1].identifier
         /\ Restored(pre[1], Snapshot, entry)
    /\ \E other \in LoadedEntries(pre[1]) :
         /\ other.deletion_time = 0
         /\ Untouched(pre[1], Snapshot, other.identifier)

\* C26 (under SpecAlloc): the allocation returns no number whose record
\* exists, and when the records of all numbers of the counter exist it ends,
\* with an error.
C26_ExhaustionIsError ==
    /\ [](output # <<>> /\ output[1].ok => output[1].value \in input.missing)
    /\ [](input.missing = {} => <>(output # <<>> /\ ~output[1].ok))

\* C27 (under SpecRace): the rename of a restore leaves a regular file that
\* is at the original path, created by another process since the check of
\* the restore or before, as it is.
C27_RestoreNeverOverwrites ==
    [][\A p \in Procs :
          RestoreRename(p)
          => LET original_path == loc[p].path IN
             fs[original_path].kind = "file"
             => fs'[original_path] = fs[original_path]]_vars

\* From 7_258_123 to the limit 7_258_122_000.
InSecondsRange(s) ==
    /\ ~Greater(<<7, 2, 5, 8, 1, 2, 3>>, s)
    /\ ~Greater(s, LIMIT)

C29_RestoreFrame ==
    [][\A p \in Procs :
          RestoreStep(p)
          => LET identifier == IF pc'[p] = "idle" THEN ret'[p].identifier
                               ELSE loc'[p].identifier
                 record == pre'[p].info[identifier]
             IN /\ \A i \in Ids \ {identifier} :
                     info'[i] = info[i] /\ files'[i] = files[i]
                /\ \A q \in Paths :
                     (record.kind # "trashinfo" \/ q # record.path)
                     => fs'[q] = fs[q]
                /\ UNCHANGED <<dirs, dsfile, dslines>>]_vars

\* A restore returned its report while another item, trashed from the same
\* path, is in the store as it was at the call.
C29_Witness ==
    /\ Idle(1)
    /\ ret[1].op = "restore"
    /\ ret[1].status = "ok"
    /\ info[ret[1].identifier] = NoRec
    /\ \E i \in Ids \ {ret[1].identifier} :
         /\ info[i].kind = "trashinfo"
         /\ info[i].path = ret[1].path
         /\ files[i].kind # "none"
         /\ Untouched(pre[1], Snapshot, i)

\* C30, as claimed (under SpecRoundTrip): when the restore of the identifier
\* that a put has just returned comes back, it has succeeded, the path given
\* to the put exists and its canonical path holds what it held before the
\* put, and the records and the payloads of the store are those from before
\* the put.
C30_PutRestoreRoundTrip ==
    [][\A p \in Procs :
          (RestoreStep(p) /\ pc'[p] = "idle")
          => LET put == ret[p]
                 before == pre'[p]
             IN /\ put.op = "put" /\ put.status = "ok"
                /\ ret'[p].status = "ok"
                /\ ret'[p].identifier = put.identifier
                /\ Exists(fs', put.arg)
                /\ Canonicalize(fs', put.arg) = put.path
                /\ fs'[put.path] = before.fs[put.path]
                /\ fs'[put.path].kind # "none"
                /\ info' = before.info
                /\ files' = before.files]_vars

\* The identifiers with a record file, and with an entry in the files
\* directory, in a snapshot of the disk.
RecordFilesOf(snapshot) == {i \in Ids : IsFile(snapshot.info[i])}
PayloadsOf(snapshot) == {i \in Ids : snapshot.files[i].kind # "none"}

\* C31 (under SpecEmpty): the entry_count of the report of empty is the
\* number of entries the files directory held at the call, all of which are
\* removed, whatever the number of record files was.
C31_EntryCountIsPayloads ==
    [][\A p \in Procs :
          EmptySucceeds(p)
          => /\ ret'[p].entry_count = Cardinality(PayloadsOf(pre'[p]))
             /\ PayloadsOf(Snapshot') = {}]_vars

\* An empty returned the count 1 after it had removed two record files, one
\* of them without payload, and one payload.
C31_Witness ==
    /\ Idle(1)
    /\ ret[1].op = "empty"
    /\ ret[1].status = "ok"
    /\ ret[1].entry_count = 1
    /\ Cardinality(PayloadsOf(pre[1])) = 1
    /\ Cardinality(RecordFilesOf(pre[1])) = 2
    /\ RecordFilesOf(Snapshot) = {}

\* C32, as claimed (under SpecLife): whenever the rename of a put succeeds,
\* the files directory held no entry at the identifier it renames onto.
C32_PutReplacesNoPayload ==
    [][\A p \in Procs :
          (pc[p] = "put_rename" /\ PutRename(p) /\ ret'[p].status = "ok")
          => files[loc[p].identifier].kind = "none"]_vars

\* Both processes have called restore, with the same identifier, and both
\* calls have returned.
BothRestored ==
    \A p \in Procs : Idle(p) /\ ret[p].op = "restore"

\* The item of the identifier can be restored in a snapshot of the disk: its
\* record can be read, its payload exists and its original path is free.
Restorable(snapshot, identifier) ==
    /\ snapshot.info[identifier].kind = "trashinfo"
    /\ PayloadExists(snapshot.fs, snapshot.files, identifier)
    /\ ~Exists(snapshot.fs, snapshot.info[identifier].path)

\* C33 (under SpecRestoreSame): when two restores of the same identifier
\* have both returned, at most one has succeeded; if the item could be
\* restored when one of them was called, exactly one has succeeded; and after
\* a success the payload is at the original path and no longer in the files
\* directory, and the record is gone.
C33_OneRestoreWins ==
    BothRestored
    => /\ ~(ret[1].status = "ok" /\ ret[2].status = "ok")
       /\ \A p \in Procs :
            LET identifier == ret[p].identifier IN
            /\ Restorable(pre[p], identifier)
               => \E q \in Procs : ret[q].status = "ok"
            /\ ret[p].status = "ok"
               => /\ fs[ret[p].path] = pre[p].files[identifier]
                  /\ fs[ret[p].path].kind # "none"
                  /\ files[identifier].kind = "none"
                  /\ info[identifier].kind = "none"

\* One restore succeeded and the other, running at the same time, failed at
\* its rename because the payload had just been moved.
C33_Witness ==
    /\ BothRestored
    /\ ret[1].status = "ENOENT"
    /\ ret[2].status = "ok"
    /\ Restorable(pre[1], ret[1].identifier)
    /\ Restorable(pre[2], ret[2].identifier)

\* Both processes have called put, with the same path, and both calls have
\* returned.
BothPut == \A p \in Procs : Idle(p) /\ ret[p].op = "put"

\* The path given to the put of p led to an existing entry when p called.
PathExisted(p) == Exists(pre[p].fs, ret[p].arg)

\* After a successful put of p the entry is in the files directory under the
\* identifier of p, gone from its path, and the only payload that has come
\* into the files directory since the call.
OnePayload(p) ==
    /\ files[ret[p].identifier] = pre[p].fs[ret[p].path]
    /\ files[ret[p].identifier].kind # "none"
    /\ fs[ret[p].path].kind = "none"
    /\ PayloadsOf(Snapshot) \ PayloadsOf(pre[p]) = {ret[p].identifier}

\* C34, as claimed (under SpecPutSame): when two puts of the same existing
\* path have both returned, exactly one has succeeded, and the entry is
\* exactly one payload of the files directory.
C34_ExactlyOnePutWins ==
    (BothPut /\ \E p \in Procs : PathExisted(p))
    => /\ Cardinality({p \in Procs : ret[p].status = "ok"}) = 1
       /\ \A p \in Procs : ret[p].status = "ok" => OnePayload(p)

\* C34, amended (under SpecPutSame): when two puts of the same existing path
\* have both returned, at most one has succeeded, and then the entry is
\* exactly one payload of the files directory; exactly one has succeeded
\* when the path is on the filesystem of the trash.
C34_AtMostOnePutWins ==
    (BothPut /\ \E p \in Procs : PathExisted(p))
    => /\ Cardinality({p \in Procs : ret[p].status = "ok"}) <= 1
       /\ \A p \in Procs :
            /\ ret[p].status = "ok" => OnePayload(p)
            /\ (PathExisted(p) /\ Dev(Canonicalize(pre[p].fs, ret[p].arg)) = TrashDev)
               => \E q \in Procs : ret[q].status = "ok"

\* Two puts of the same file ran at the same time: the second took the
\* identifier x_1 and succeeded, the first lost the file at its rename.
C34_Witness ==
    /\ BothPut
    /\ PathExisted(1)
    /\ PathExisted(2)
    /\ ret[1].status = "ENOENT"
    /\ ret[2].status = "ok"
    /\ ret[1].identifier = "x"
    /\ ret[2].identifier = "x_1"
    /\ OnePayload(2)

\* An empty call of p returns, with its report or with an error.
EmptyReturns(p) == EmptyStep(p) /\ pc'[p] = "idle"

\* C35 (under SpecFresh): empty returns its report only when the files
\* directory and the directorysizes file exist at its last step;
\* called on a trash without directories it returns an error and changes
\* nothing; and when the directories exist, every payload is a directory and
\* only the directorysizes file is absent, it returns the error of that
\* removal after every record file and every payload has been removed.
C35_EmptyNeedsDirsAndSizeCache ==
    [][\A p \in Procs :
          EmptyReturns(p)
          => LET before == pre'[p] IN
             /\ ret'[p].status = "ok"
                => "files" \in dirs /\ dsfile
             /\ before.dirs = {}
                => ret'[p].status # "ok" /\ Snapshot' = before
             /\ (/\ before.dirs = {"base", "info", "files"}
                 /\ ~before.dsfile
                 /\ \A identifier \in Ids :
                      RemoveDirAllResult(before.files[identifier]) # "ENOTDIR")
                => /\ ret'[p].status = "cannot remove directorysizes file"
                   /\ RecordFilesOf(Snapshot') = {}
                   /\ PayloadsOf(Snapshot') = {}]_vars

\* An empty call on a trash without directories returned an error.
C35_Witness ==
    /\ Idle(1)
    /\ ret[1].op = "empty"
    /\ ret[1].status = "cannot read files directory"
    /\ pre[1].dirs = {}
    /\ dirs = {}

\* An empty call returned the error of the directorysizes file after it
\* had removed a record and a directory payload.
C35_WitnessSizeCache ==
    /\ Idle(1)
    /\ ret[1].op = "empty"
    /\ ret[1].status = "cannot remove directorysizes file"
    /\ ret[1].entry_count = 1
    /\ RecordFilesOf(pre[1]) # {}
    /\ RecordFilesOf(Snapshot) = {}
    /\ PayloadsOf(Snapshot) = {}

\* The deletion time of a report or of an entry, and its truncation to whole
\* seconds.
DeletionTime(r) == [seconds |-> r.deletion_time, nanos |-> r.nanos]
Truncated(time) == [time EXCEPT !.nanos = 0]

\* Process 1 holds the report of its put.
PutReported == Idle(1) /\ ret[1].op = "put" /\ ret[1].status = "ok"

\* C36 (under SpecReport): the report of a put carries the instant the clock
\* showed, with its nanoseconds; the entry that entries() yields for the
\* identifier of the put, and the report of its restore, carry that instant
\* truncated to whole seconds.
C36_DeletionTimeTruncated ==
    PutReported
    => LET put == ret[1] IN
       /\ put.nanos = SubSecond(put.deletion_time)
       /\ (Idle(2) /\ ret[2].op = "entries")
          => \A entry \in ret[2].entries :
                (entry.ok /\ entry.identifier = put.identifier)
                => DeletionTime(entry) = Truncated(DeletionTime(put))
       /\ (Idle(2) /\ ret[2].op = "restore" /\ ret[2].status = "ok"
                   /\ ret[2].identifier = put.identifier)
          => DeletionTime(ret[2]) = Truncated(DeletionTime(put))

\* A file was put half past second 1, and the report of its restore names
\* second 1 sharp.
C36_Witness ==
    /\ PutReported
    /\ DeletionTime(ret[1]) = [seconds |-> 1, nanos |-> 500000000]
    /\ Idle(2)
    /\ ret[2].op = "restore"
    /\ ret[2].status = "ok"
    /\ ret[2].identifier = ret[1].identifier
    /\ DeletionTime(ret[2]) = [seconds |-> 1, nanos |-> 0]

\* The same item as entries() listed it before the restore.
C36_WitnessListed ==
    /\ PutReported
    /\ ret[1].nanos > 0
    /\ Idle(2)
    /\ ret[2].op = "entries"
    /\ \E entry \in ret[2].entries :
         /\ entry.ok
         /\ entry.identifier = ret[1].identifier
         /\ DeletionTime(entry) = [seconds |-> 1, nanos |-> 0]

\* A running call holds the record of the identifier: a put that has created
\* it and not yet moved the payload in, or a restore that has moved the
\* payload out and not yet removed it.
HeldByCall(identifier) ==
    \E p \in Procs :
        /\ pc[p] \in {"put_write", "put_rename", "restore_remove"}
        /\ loc[p].identifier = identifier

\* The records without payload that no running call holds, on the disk and
\* in a snapshot taken between the calls.
RecordsWithoutPayload ==
    {i \in Ids : IsFile(info[i]) /\ files[i].kind = "none" /\ ~HeldByCall(i)}

RecordsWithoutPayloadIn(snapshot) ==
    RecordFilesOf(snapshot) \ PayloadsOf(snapshot)

\* A step of put, restore or entries of p.
NonEmptyingStep(p) == Put(p) \/ RestoreStep(p) \/ Entries(p)

\* C37 (under Spec): no step of put, restore or entries changes a record
\* without payload or brings a payload under its identifier; a restore of
\* such an identifier returns an error; a put that succeeds takes the first
\* candidate without record file, which is none of them; entries() yields
\* an error for each of them; and when empty has got past the info
\* directory none of them is left.
C37_RecordWithoutPayloadStays ==
    [][\A p \in Procs :
          LET left == RecordsWithoutPayloadIn(pre'[p]) IN
          /\ NonEmptyingStep(p)
             => \A i \in RecordsWithoutPayload :
                   info'[i] = info[i] /\ files'[i].kind = "none"
          /\ (RestoreStep(p) /\ pc'[p] = "idle" /\ ret'[p].identifier \in left)
             => ret'[p].status # "ok"
          /\ (Put(p) /\ pc'[p] = "idle" /\ ret'[p].status = "ok")
             => /\ ret'[p].identifier \notin left
                /\ ret'[p].identifier =
                      Candidate(Identifier(ret'[p].path),
                                FirstFree(pre'[p].info, Identifier(ret'[p].path)))
          /\ (Entries(p) /\ pc'[p] = "idle")
             => \A i \in left :
                   \E entry \in ret'[p].entries : entry.identifier = i /\ ~entry.ok
          /\ (EmptyStep(p) /\ pc[p] = "empty_trashinfo" /\ pc'[p] # "empty_trashinfo")
             => RecordFilesOf(Snapshot') = {}]_vars

\* A put was interrupted after it had written the record x; the next put of
\* a file named x took x_1, and the record x is still there without payload.
C37_Witness ==
    /\ PutOk(1)
    /\ ret[1].identifier = "x_1"
    /\ "x" \in RecordsWithoutPayloadIn(pre[1])
    /\ "x" \in RecordsWithoutPayload
    /\ info["x"] = pre[1].info["x"]
    /\ crashed

\* The sizes of the directory payloads among the entries a listing yielded.
DirectorySizes(entries) ==
    {entry.size : entry \in {e \in entries : e.ok /\ files[e.identifier].kind = "dir"}}

\* C38 (under SpecNoText): when the listing that initialises the cell of the
\* directory sizes finds a line that is no UTF-8 in the directorysizes file,
\* the cell holds the empty mapping, whatever lines precede it; a cell that
\* is initialised never changes; and a listing of a Trash value whose cell
\* holds the empty mapping reports every directory payload with size 0.
C38_ReadErrorEmptiesCache ==
    [][\A p \in Procs :
          (pc[p] = "entries_collect" /\ EntriesCollect(p))
          => /\ (/\ ~cache[p].set
                 /\ cache'[p].set
                 /\ dsfile
                 /\ \E k \in DOMAIN dslines : ~IsUtf8(dslines[k]))
                => cache'[p] = Loaded(NoDirSizes)
             /\ cache[p].set => cache'[p] = cache[p]
             /\ cache'[p] = Loaded(NoDirSizes)
                => DirectorySizes(ret'[p].entries) \subseteq {0}]_vars

\* A listing reported the directory x with size 0 although the first line of
\* the directorysizes file gives its size for the mtime of its record: the
\* second line is no UTF-8.
C38_Witness ==
    /\ Idle(1)
    /\ ret[1].op = "entries"
    /\ cache[1] = Loaded(NoDirSizes)
    /\ Len(dslines) = 2
    /\ DirSizeLookup(DirSizesInsert(NoDirSizes, dslines[1]), "x", Seconds(mtime["x"])) > 0
    /\ ~IsUtf8(dslines[2])
    /\ \E entry \in ret[1].entries :
         entry.ok /\ entry.identifier = "x" /\ entry.size = 0

\* The restore command of p with paths has gone through its entries and
\* returns.
CommandEnds(p) ==
    /\ pc[p] = "restore_entries"
    /\ reader = <<>>
    /\ AppRestoreEnd(p)

\* The arguments of the command that are paths, the entries with a given
\* original path, and what the command did with an identifier.
ValidPaths(args) == {args[k] : k \in DOMAIN args} \cap Paths
Matching(entries, path) == {entry \in entries : entry.original_path = path}
Outcomes(results, identifier) ==
    {results[k].status : k \in {j \in DOMAIN results :
                                   results[j].identifier = identifier}}

\* C39, as claimed (under SpecAppPaths): when the restore command with
\* paths returns and no prompt was declined, for every path one of the most
\* recent entries with that original path has been restored, nothing has
\* been restored to a path without such an entry, and when no path has an
\* entry the command returns without error, the disk unchanged.
C39_RestoresMostRecentOfPath ==
    [][\A p \in Procs :
          (/\ CommandEnds(p)
           /\ ValidPaths(input) # {}
           /\ \A k \in DOMAIN output : output[k].status # "declined")
          => LET before == pre[p]
                 entries == LoadedEntries(before)
             IN /\ \A path \in ValidPaths(input) :
                     IF Matching(entries, path) = {}
                     THEN fs[path] = before.fs[path]
                     ELSE \E entry \in Matching(entries, path) :
                            /\ MostRecent(entry, Matching(entries, path))
                            /\ Restored(before, Snapshot, entry)
                /\ (/\ \A k \in DOMAIN input : input[k] \in Paths
                    /\ \A path \in ValidPaths(input) : Matching(entries, path) = {})
                   => ret'[p].status = "ok" /\ Snapshot = before]_vars

\* C39, amended (under SpecAppPaths): when the restore command with paths
\* returns, for every path it has taken one of the most recent entries with
\* that original path and no other; the entry is restored when a call of the
\* engine for it succeeded and is as it was otherwise; for a path without
\* such an entry it has taken none, and nothing is at that path that was not
\* there; the entries it has not taken are as they were; and the errors of
\* its result are the arguments that are no UTF-8 and the calls of the
\* engine that failed, so that a path without entry is none.
C39_SelectsMostRecentOfPath ==
    [][\A p \in Procs :
          (CommandEnds(p) /\ ValidPaths(input) # {})
          => LET before == pre[p]
                 entries == LoadedEntries(before)
                 failed == {k \in DOMAIN output :
                               output[k].status \notin {"ok", "declined"}}
                 invalid == {k \in DOMAIN input : input[k] \notin Paths}
             IN /\ \A path \in ValidPaths(input) :
                     IF Matching(entries, path) = {}
                     THEN fs[path] = before.fs[path]
                     ELSE \E entry \in Matching(entries, path) :
                            /\ MostRecent(entry, Matching(entries, path))
                            /\ Outcomes(output, entry.identifier) # {}
                            /\ \A other \in Matching(entries, path) \ {entry} :
                                 Outcomes(output, other.identifier) = {}
                            /\ IF "ok" \in Outcomes(output, entry.identifier)
                               THEN Restored(before, Snapshot, entry)
                               ELSE Untouched(before, Snapshot, entry.identifier)
                /\ \A k \in DOMAIN output :
                     \E entry \in entries :
                        /\ entry.identifier = output[k].identifier
                        /\ entry.original_path \in ValidPaths(input)
                /\ \A i \in Ids :
                     Outcomes(output, i) = {} => Untouched(before, Snapshot, i)
                /\ ret'[p].entry_count = Cardinality(failed) + Cardinality(invalid)
                /\ ret'[p].status = "ok" <=> failed \cup invalid = {}]_vars

\* The command with the paths /a/x and /b/x has restored the file trashed
\* from /a/x in second 1, left the one trashed from /a/x in second 0 in the
\* store, and found no entry of /b/x.
C39_Witness ==
    /\ pc[1] = "restore_entries"
    /\ reader = <<>>
    /\ input = <<Path("a", "x"), Path("b", "x")>>
    /\ Len(output) = 1
    /\ output[1].status = "ok"
    /\ Matching(LoadedEntries(pre[1]), Path("b", "x")) = {}
    /\ \E entry, other \in Matching(LoadedEntries(pre[1]), Path("a", "x")) :
         /\ entry.deletion_time = 1
         /\ other.deletion_time = 0
         /\ entry.identifier = output[1].identifier
         /\ Restored(pre[1], Snapshot, entry)
         /\ Untouched(pre[1], Snapshot, other.identifier)
====
